---------------------------- MODULE Spec2Model ----------------------------
(***************************************************************************)
(* The application manager of finks (internal/app/manager.go) over the     *)
(* Docker client wrapper (internal/docker/client.go): the registry kept in *)
(* memory by a Manager, the registry document apps.json, and the           *)
(* containers of the local Docker daemon.  Strings that the code takes     *)
(* apart (container names, status texts, port mappings, app names that go  *)
(* into label keys, domains) are sequences of one-character strings; the   *)
(* others are opaque strings.  CreatedAt / UpdatedAt carry no control flow *)
(* and are left out of the records.                                        *)
(*                                                                         *)
(* Spec runs one command at a time, as the CLI does.  RaceSpec runs two    *)
(* commands side by side, call by call.  NetworkSpec runs                  *)
(* Client.EnsureNetwork (docker package) over the daemon's networks.       *)
(* LabelSpec calls the label generator of internal/traefik/labels.go.      *)
(* ProxySpec runs InstallTraefik, app deploy and the proxy manager's       *)
(* GetStatus against one daemon.  WizardSpec runs the setup wizard under   *)
(* its event loop; WizardFairSpec adds that started commands deliver.      *)
(***************************************************************************)
EXTENDS Naturals, Sequences, FiniteSets, TLC

VARIABLES
    config,      \* m.config.Apps: app name -> App, the in-memory registry
    file,        \* the document at m.configPath (exists is FALSE before the first write)
    containers,  \* the daemon's containers: container name -> state
    last,        \* the most recent Manager call: its arguments, result and calls
    scenario,    \* the commands run since the start, while they follow Scenario
    invocations, \* RaceSpec: the two deploy commands, each with its position
    networks,    \* NetworkSpec: the daemon's networks
    ensured,     \* NetworkSpec: the most recent EnsureNetwork call and the ids returned
    labelCall,   \* LabelSpec: the most recent call into the label package
    labelPrev,   \* LabelSpec: an earlier GenerateLabels call, kept for comparison
    origin,      \* ProxySpec: container name -> the image it was created from
    installed,   \* ProxySpec: the most recent call (InstallTraefik, DeployApp, GetStatus)
    wizard       \* WizardSpec: the WizardState and the messages under way

vars == <<config, file, containers, last, scenario, invocations, networks, ensured,
          labelCall, labelPrev, origin, installed, wizard>>

---------------------------------------------------------------------------
(* Bounds and inputs *)

\* Number of distinct deploy declarations (image, port, env, volumes) tried.
NumSpecs == 3

Web == <<"w", "e", "b">>
Db == <<"d", "b">>
AppNames == {Web, Db}

\* "finks-", the fixed prefix of manager.go:62 and manager.go:188
Prefix == <<"f", "i", "n", "k", "s", "-">>

\* A container that does not carry the prefix.
OtherContainer == <<"r", "e", "g">>

\* --port values: "8080:80", none, "8080:http" and "8080"
DeployArgs(i) ==
    CASE i = 1 -> [image |-> "nginx:latest",
                   port |-> <<"8", "0", "8", "0", ":", "8", "0">>,
                   env |-> [k \in {} |-> ""], volumes |-> << >>]
      [] i = 2 -> [image |-> "redis", port |-> << >>,
                   env |-> [k \in {"KEY"} |-> "VALUE"], volumes |-> <<"/data:/data">>]
      [] i = 3 -> [image |-> "httpd",
                   port |-> <<"8", "0", "8", "0", ":", "h", "t", "t", "p">>,
                   env |-> [k \in {} |-> ""], volumes |-> << >>]
      [] OTHER -> [image |-> "postgres:13", port |-> <<"8", "0", "8", "0">>,
                   env |-> [k \in {"POSTGRES_PASSWORD"} |-> "secret"], volumes |-> << >>]

Specs == {DeployArgs(i) : i \in 1..NumSpecs}

---------------------------------------------------------------------------
(* Types and constants of internal/app/types.go *)

StatusRunning == "running"
StatusStopped == "stopped"
StatusFailed == "failed"
StatusUnknown == "unknown"

\* The states of a daemon container; Absent: no container of that name.
Absent == "absent"
Created == "created"
Running == "running"
Exited == "exited"

---------------------------------------------------------------------------
(* strings *)

UpperAlphabet == <<"A","B","C","D","E","F","G","H","I","J","K","L","M",
                   "N","O","P","Q","R","S","T","U","V","W","X","Y","Z">>
LowerAlphabet == <<"a","b","c","d","e","f","g","h","i","j","k","l","m",
                   "n","o","p","q","r","s","t","u","v","w","x","y","z">>

ToLowerChar(c) ==
    IF \E i \in 1..Len(UpperAlphabet) : UpperAlphabet[i] = c
    THEN LowerAlphabet[CHOOSE i \in 1..Len(UpperAlphabet) : UpperAlphabet[i] = c]
    ELSE c

\* strings.ToLower
ToLower(s) == [i \in 1..Len(s) |-> ToLowerChar(s[i])]

\* strings.Contains
Contains(s, substr) ==
    \E i \in 0..Len(s) :
        /\ i + Len(substr) <= Len(s)
        /\ SubSeq(s, i + 1, i + Len(substr)) = substr

RECURSIVE TrimLeft(_, _)
\* strings.TrimLeft: drops the leading characters that occur in cutset
TrimLeft(s, cutset) ==
    IF Len(s) > 0 /\ \E i \in 1..Len(cutset) : cutset[i] = s[1]
    THEN TrimLeft(Tail(s), cutset)
    ELSE s

\* CutPrefix that cuts with strings.TrimLeft, taking the prefix for a set of
\* characters.
CutPrefix_TrimsLeft(s, prefix) ==
    [after |-> TrimLeft(s, prefix), found |-> TrimLeft(s, prefix) # s]

\* strings.CutPrefix
CutPrefix(s, prefix) ==
    IF Len(s) >= Len(prefix) /\ SubSeq(s, 1, Len(prefix)) = prefix
    THEN [after |-> SubSeq(s, Len(prefix) + 1, Len(s)), found |-> TRUE]
    ELSE [after |-> s, found |-> FALSE]

\* strings.Index of a one-character separator: 0 when s does not hold it
Index(s, sep) ==
    IF \E i \in 1..Len(s) : s[i] = sep
    THEN CHOOSE i \in 1..Len(s) : s[i] = sep /\ \A j \in 1..(i - 1) : s[j] # sep
    ELSE 0

RECURSIVE Split(_, _)
\* strings.Split on a one-character separator
Split(s, sep) ==
    IF Index(s, sep) = 0 THEN <<s>>
    ELSE <<SubSeq(s, 1, Index(s, sep) - 1)>>
             \o Split(SubSeq(s, Index(s, sep) + 1, Len(s)), sep)

Digits == <<"0", "1", "2", "3", "4", "5", "6", "7", "8", "9">>

IsDigit(c) == \E i \in 1..Len(Digits) : Digits[i] = c

DigitValue(c) == (CHOOSE i \in 1..Len(Digits) : Digits[i] = c) - 1

RECURSIVE Decimal(_)
Decimal(s) ==
    IF Len(s) = 0 THEN 0
    ELSE 10 * Decimal(SubSeq(s, 1, Len(s) - 1)) + DigitValue(s[Len(s)])

\* The largest value of 16 bits.
MaxUint16 == 65535

\* strconv.ParseUint(s, 10, 16)
ParseUint16(s) ==
    IF Len(s) = 0 \/ \E i \in 1..Len(s) : ~IsDigit(s[i]) THEN [ok |-> FALSE, value |-> 0]
    ELSE IF Decimal(s) > MaxUint16 THEN [ok |-> FALSE, value |-> MaxUint16]
    ELSE [ok |-> TRUE, value |-> Decimal(s)]

\* fmt.Sprintf("finks-%s", name)
ContainerName(name) == Prefix \o name

ContainerNames == {ContainerName(n) : n \in AppNames} \cup {OtherContainer}

ExitedText == <<"e", "x", "i", "t", "e", "d">>

\* The status text the daemon reports for a container (cont.Status).
StatusText(state) ==
    CASE state = Running -> <<"U","p"," ","2"," ","h","o","u","r","s">>
      [] state = Exited -> <<"E","x","i","t","e","d"," ","(","0",")"," ","3"," ","s">>
      [] OTHER -> <<"C","r","e","a","t","e","d">>

---------------------------------------------------------------------------
(* The registry document: json.MarshalIndent / json.Unmarshal of Config *)

NilMap == [k \in {} |-> ""]

EmptyApps == [n \in {} |-> ""]

\* One App as a JSON object: port, env_vars and volumes are omitempty.
MarshalApp(a) ==
    LET keys == {"name", "image", "status"}
                \cup (IF a.Port # << >> THEN {"port"} ELSE {})
                \cup (IF DOMAIN a.EnvVars # {} THEN {"env_vars"} ELSE {})
                \cup (IF Len(a.Volumes) > 0 THEN {"volumes"} ELSE {})
    IN [k \in keys |->
            CASE k = "name" -> a.Name
              [] k = "image" -> a.Image
              [] k = "status" -> a.Status
              [] k = "port" -> a.Port
              [] k = "env_vars" -> a.EnvVars
              [] OTHER -> a.Volumes]

\* A JSON object read back into an App: an absent key leaves the zero value.
UnmarshalApp(o) ==
    [Name |-> o["name"],
     Image |-> o["image"],
     Port |-> IF "port" \in DOMAIN o THEN o["port"] ELSE << >>,
     EnvVars |-> IF "env_vars" \in DOMAIN o THEN o["env_vars"] ELSE NilMap,
     Volumes |-> IF "volumes" \in DOMAIN o THEN o["volumes"] ELSE << >>,
     Status |-> o["status"]]

Marshal(apps) == [exists |-> TRUE, apps |-> [n \in DOMAIN apps |-> MarshalApp(apps[n])]]

\* Manager.loadConfig: no file leaves the empty registry of NewManager.
loadConfig(f) ==
    IF ~f.exists THEN EmptyApps
    ELSE [n \in DOMAIN f.apps |-> UnmarshalApp(f.apps[n])]

\* saveConfig that patches the document: the entries of the registry are
\* written over it and the other entries of the document stay.
saveConfig_Patches(apps, f, fault) ==
    IF fault = "WriteFile"
    THEN [ok |-> FALSE, file |-> f]
    ELSE [ok |-> TRUE,
          file |-> [exists |-> TRUE,
                    apps |-> [n \in DOMAIN f.apps \cup DOMAIN apps |->
                                 IF n \in DOMAIN apps THEN MarshalApp(apps[n])
                                 ELSE f.apps[n]]]]

\* Manager.saveConfig: the whole registry is rewritten; a failed write leaves
\* the document as it was.
saveConfig(apps, f, fault) ==
    IF fault = "WriteFile"
    THEN [ok |-> FALSE, file |-> f]
    ELSE [ok |-> TRUE, file |-> Marshal(apps)]

---------------------------------------------------------------------------
(* internal/docker/client.go over the daemon.  fault names the one call of *)
(* the operation that the daemon or the disk fails for a reason of its own *)
(* ("none": no such failure).                                              *)

Nil == "nil"
DaemonError == "daemon error"
NameInUse == "name in use"
IsRunning == "container is running"
NoSuchContainer == "no such container"

Slash == <<"/">>

\* strings.TrimPrefix
TrimPrefix(s, prefix) == CutPrefix(s, prefix).after

\* cli.ContainerList with All: true: the daemon's names start with "/".
ContainerList(ctrs) ==
    {[Names |-> <<Slash \o cn>>, Status |-> StatusText(ctrs[cn])] :
        cn \in {c \in DOMAIN ctrs : ctrs[c] # Absent}}

\* IsAvailable that takes the daemon for reachable without asking.
IsAvailable_Always(fault) == TRUE

\* Client.IsAvailable
IsAvailable(fault) == fault # "Ping"

\* Client.PullImage
PullImage(image, fault) == fault # "ImagePull"

\* ContainerExists comparing the daemon's name as it is, "/" included.
ContainerExists_NoTrim(ctrs, name) ==
    \E cont \in ContainerList(ctrs) :
        \E i \in 1..Len(cont.Names) : cont.Names[i] = name

\* Client.ContainerExists
ContainerExists(ctrs, name) ==
    \E cont \in ContainerList(ctrs) :
        \E i \in 1..Len(cont.Names) : TrimPrefix(cont.Names[i], Slash) = name

\* Client.ListContainers
ListContainers(ctrs) ==
    {[Name |-> IF Len(cont.Names) > 0 THEN TrimPrefix(cont.Names[1], Slash) ELSE << >>,
      Status |-> cont.Status] : cont \in ContainerList(ctrs)}

\* nat.NewPort(proto, port) as client.go:84 calls it: the port is a number of
\* 16 bits or a range "start-end" of them; the empty string gives port 0.
NewPort(proto, port) ==
    IF Len(port) = 0 THEN [ok |-> TRUE, start |-> 0, end |-> 0, proto |-> proto]
    ELSE IF Index(port, "-") = 0
    THEN LET n == ParseUint16(port) IN
         [ok |-> n.ok, start |-> n.value, end |-> n.value, proto |-> proto]
    ELSE LET parts == Split(port, "-")
             start == ParseUint16(parts[1])
             end == ParseUint16(parts[2])
         IN [ok |-> start.ok /\ end.ok /\ end.value >= start.value,
             start |-> start.value, end |-> end.value, proto |-> proto]

NoPort == [start |-> 0, end |-> 0, proto |-> << >>]

Tcp == <<"t", "c", "p">>

\* Client.RunContainer, client.go:64-96: the port mapping of opts.Port.  A
\* value that is not two parts around one ":" gives no mapping and no error.
PortBindings(port) ==
    LET parts == Split(port, ":") IN
    IF port = << >> \/ Len(parts) # 2
    THEN [ok |-> TRUE, bound |-> FALSE, containerPort |-> NoPort, hostPort |-> << >>]
    ELSE
    LET hostPort == parts[1]
        protoParts == Split(parts[2], "/")
        containerPortStr == IF Index(parts[2], "/") # 0 THEN protoParts[1] ELSE parts[2]
        proto == IF Index(parts[2], "/") # 0 THEN protoParts[2] ELSE Tcp
        made == NewPort(proto, containerPortStr)
    IN [ok |-> made.ok, bound |-> made.ok,
        containerPort |-> [start |-> made.start, end |-> made.end, proto |-> made.proto],
        hostPort |-> IF made.ok THEN hostPort ELSE << >>]

\* RunContainer over a daemon that lets a second container take a name in use.
RunContainer_SharesName(ctrs, opts, fault) ==
    IF ~PortBindings(opts.Port).ok
    THEN [err |-> "invalid container port", reason |-> Nil, containers |-> ctrs,
          calls |-> << >>]
    ELSE IF fault = "ContainerCreate"
    THEN [err |-> "failed to create container", reason |-> DaemonError,
          containers |-> ctrs, calls |-> <<"ContainerCreate">>]
    ELSE IF fault = "ContainerStart"
    THEN [err |-> "failed to start container", reason |-> DaemonError,
          containers |-> [ctrs EXCEPT ![opts.Name] = IF @ = Absent THEN Created ELSE @],
          calls |-> <<"ContainerCreate", "ContainerStart">>]
    ELSE [err |-> Nil, reason |-> Nil,
          containers |-> [ctrs EXCEPT ![opts.Name] = Running],
          calls |-> <<"ContainerCreate", "ContainerStart">>]

\* Client.RunContainer: the port mapping is parsed, then the container is
\* created, then started; a failed start returns at once.
RunContainer(ctrs, opts, fault) ==
    IF ~PortBindings(opts.Port).ok
    THEN [err |-> "invalid container port", reason |-> Nil, containers |-> ctrs,
          calls |-> << >>]
    ELSE IF fault = "ContainerCreate" \/ ctrs[opts.Name] # Absent
    THEN [err |-> "failed to create container",
          reason |-> IF fault = "ContainerCreate" THEN DaemonError ELSE NameInUse,
          containers |-> ctrs,
          calls |-> <<"ContainerCreate">>]
    ELSE LET made == [ctrs EXCEPT ![opts.Name] = Created] IN
         IF fault = "ContainerStart"
         THEN [err |-> "failed to start container",
               reason |-> DaemonError,
               containers |-> made,
               calls |-> <<"ContainerCreate", "ContainerStart">>]
         ELSE [err |-> Nil,
               reason |-> Nil,
               containers |-> [made EXCEPT ![opts.Name] = Running],
               calls |-> <<"ContainerCreate", "ContainerStart">>]

\* StopContainer that reports success and leaves the container running.
StopContainer_LeavesRunning(ctrs, name, fault) ==
    IF fault = "ContainerStop" \/ ctrs[name] = Absent
    THEN [err |-> "failed to stop container",
          reason |-> IF fault = "ContainerStop" THEN DaemonError ELSE NoSuchContainer,
          containers |-> ctrs]
    ELSE [err |-> Nil, reason |-> Nil, containers |-> ctrs]

\* Client.StopContainer
StopContainer(ctrs, name, fault) ==
    IF fault = "ContainerStop" \/ ctrs[name] = Absent
    THEN [err |-> "failed to stop container",
          reason |-> IF fault = "ContainerStop" THEN DaemonError ELSE NoSuchContainer,
          containers |-> ctrs]
    ELSE [err |-> Nil, reason |-> Nil,
          containers |-> IF ctrs[name] = Running
                         THEN [ctrs EXCEPT ![name] = Exited] ELSE ctrs]

\* Client.StartContainer
StartContainer(ctrs, name, fault) ==
    IF fault = "ContainerStart" \/ ctrs[name] = Absent
    THEN [err |-> "failed to start container",
          reason |-> IF fault = "ContainerStart" THEN DaemonError ELSE NoSuchContainer,
          containers |-> ctrs]
    ELSE [err |-> Nil, reason |-> Nil, containers |-> [ctrs EXCEPT ![name] = Running]]

\* RemoveContainer with Force always set.
RemoveContainer_AlwaysForce(ctrs, name, force, fault) ==
    IF fault = "ContainerRemove"
    THEN [err |-> "failed to remove container", reason |-> DaemonError, containers |-> ctrs]
    ELSE IF ctrs[name] = Absent
    THEN [err |-> "failed to remove container", reason |-> NoSuchContainer, containers |-> ctrs]
    ELSE [err |-> Nil, reason |-> Nil, containers |-> [ctrs EXCEPT ![name] = Absent]]

\* RemoveContainer that does not pass force on.
RemoveContainer_NeverForce(ctrs, name, force, fault) ==
    IF fault = "ContainerRemove"
    THEN [err |-> "failed to remove container", reason |-> DaemonError, containers |-> ctrs]
    ELSE IF ctrs[name] = Absent
    THEN [err |-> "failed to remove container", reason |-> NoSuchContainer, containers |-> ctrs]
    ELSE IF ctrs[name] = Running
    THEN [err |-> "failed to remove container", reason |-> IsRunning, containers |-> ctrs]
    ELSE [err |-> Nil, reason |-> Nil, containers |-> [ctrs EXCEPT ![name] = Absent]]

\* Client.RemoveContainer: the daemon refuses a running container unless forced.
RemoveContainer(ctrs, name, force, fault) ==
    IF fault = "ContainerRemove"
    THEN [err |-> "failed to remove container", reason |-> DaemonError, containers |-> ctrs]
    ELSE IF ctrs[name] = Absent
    THEN [err |-> "failed to remove container", reason |-> NoSuchContainer, containers |-> ctrs]
    ELSE IF ctrs[name] = Running /\ ~force
    THEN [err |-> "failed to remove container", reason |-> IsRunning, containers |-> ctrs]
    ELSE [err |-> Nil, reason |-> Nil, containers |-> [ctrs EXCEPT ![name] = Absent]]

---------------------------------------------------------------------------
(* internal/app/manager.go.  Each operation is computed from the Manager's *)
(* registry m, the document f and the daemon's containers, and yields the  *)
(* three afterwards with the error returned (Nil: none), the client error  *)
(* it wraps (via), the daemon's reason, and the calls issued in order.     *)

Return(m, f, ctrs, err, via, reason, calls) ==
    [config |-> m, file |-> f, containers |-> ctrs,
     err |-> err, via |-> via, reason |-> reason, calls |-> calls]

ErrUnavailable == "docker daemon is not available"
ErrExistsCheck == "failed to check if container exists"
ErrAlreadyExists == "application already exists"
ErrPull == "failed to pull image"
ErrRun == "failed to run container"
ErrSave == "failed to save config"
ErrNotFound == "application not found"
ErrStop == "failed to stop container"
ErrStart == "failed to start container"
ErrRemove == "failed to remove container"
ErrList == "failed to list containers"

\* NewApp that leaves the volumes out of the record.
NewApp_DropsVolumes(name, image, port, envVars, volumes) ==
    [Name |-> name, Image |-> image, Port |-> port, EnvVars |-> envVars,
     Volumes |-> << >>, Status |-> StatusRunning]

\* The App that DeployApp records (manager.go:86-95).
NewApp(name, image, port, envVars, volumes) ==
    [Name |-> name, Image |-> image, Port |-> port, EnvVars |-> envVars,
     Volumes |-> volumes, Status |-> StatusRunning]

\* m.config.Apps[name] = app
Put(m, name, app) == [n \in DOMAIN m \cup {name} |-> IF n = name THEN app ELSE m[n]]

\* delete(m.config.Apps, name)
Delete(m, name) == [n \in DOMAIN m \ {name} |-> m[n]]

\* Manager.DeployApp, manager.go:86-102: record the app and persist.
DeployRecord(m, f, ctrs, name, args, fault, issued) ==
    LET apps == Put(m, name, NewApp(name, args.image, args.port, args.env, args.volumes))
        saved == saveConfig(apps, f, fault)
    IN Return(apps, saved.file, ctrs, IF saved.ok THEN Nil ELSE ErrSave, Nil, Nil,
              Append(issued, "WriteFile"))

\* Manager.DeployApp, manager.go:74-84: run the container.
DeployRun(m, f, ctrs, name, args, fault, issued) ==
    LET runOpts == [Name |-> ContainerName(name), Image |-> args.image,
                    Port |-> args.port, EnvVars |-> args.env, Volumes |-> args.volumes]
        run == RunContainer(ctrs, runOpts, fault)
    IN
    IF run.err # Nil
    THEN Return(m, f, run.containers, ErrRun, run.err, run.reason, issued \o run.calls)
    ELSE DeployRecord(m, f, run.containers, name, args, fault, issued \o run.calls)

\* DeployPull with the app recorded and persisted before the image is pulled.
DeployPull_RecordsFirst(m, f, ctrs, name, args, fault, issued) ==
    LET rec == DeployRecord(m, f, ctrs, name, args, "none", issued) IN
    IF ~PullImage(args.image, fault)
    THEN Return(rec.config, rec.file, ctrs, ErrPull, ErrPull, DaemonError,
                Append(rec.calls, "ImagePull"))
    ELSE DeployRun(m, f, ctrs, name, args, fault, Append(issued, "ImagePull"))

\* Manager.DeployApp, manager.go:70-72: pull the image.
DeployPull(m, f, ctrs, name, args, fault, issued) ==
    IF ~PullImage(args.image, fault)
    THEN Return(m, f, ctrs, ErrPull, ErrPull, DaemonError, Append(issued, "ImagePull"))
    ELSE DeployRun(m, f, ctrs, name, args, fault, Append(issued, "ImagePull"))

\* Manager.DeployApp
DeployAppRun(m, f, ctrs, name, args, fault) ==
    LET containerName == ContainerName(name) IN
    IF ~IsAvailable(fault)
    THEN Return(m, f, ctrs, ErrUnavailable, Nil, DaemonError, <<"Ping">>)
    ELSE IF fault = "ContainerList"
    THEN Return(m, f, ctrs, ErrExistsCheck, ErrList, DaemonError,
                <<"Ping", "ContainerList">>)
    ELSE IF ContainerExists(ctrs, containerName)
    THEN Return(m, f, ctrs, ErrAlreadyExists, Nil, Nil, <<"Ping", "ContainerList">>)
    ELSE DeployPull(m, f, ctrs, name, args, fault, <<"Ping", "ContainerList">>)

\* StopApp that goes by the container: it stops a container that exists also
\* when the registry holds no entry for the name.
StopAppRun_GoesByContainer(m, f, ctrs, name, fault) ==
    IF ~IsAvailable(fault)
    THEN Return(m, f, ctrs, ErrUnavailable, Nil, DaemonError, <<"Ping">>)
    ELSE IF name \notin DOMAIN m /\ ctrs[ContainerName(name)] = Absent
    THEN Return(m, f, ctrs, ErrNotFound, Nil, Nil, <<"Ping">>)
    ELSE
    LET stop == StopContainer(ctrs, ContainerName(name), fault) IN
    IF stop.err # Nil
    THEN Return(m, f, ctrs, ErrStop, stop.err, stop.reason, <<"Ping", "ContainerStop">>)
    ELSE
    LET apps == IF name \in DOMAIN m THEN [m EXCEPT ![name].Status = StatusStopped] ELSE m
        saved == saveConfig(apps, f, fault)
    IN Return(apps, saved.file, stop.containers,
              IF saved.ok THEN Nil ELSE ErrSave, Nil, Nil,
              <<"Ping", "ContainerStop", "WriteFile">>)

\* Manager.StopApp
StopAppRun(m, f, ctrs, name, fault) ==
    IF ~IsAvailable(fault)
    THEN Return(m, f, ctrs, ErrUnavailable, Nil, DaemonError, <<"Ping">>)
    ELSE IF name \notin DOMAIN m
    THEN Return(m, f, ctrs, ErrNotFound, Nil, Nil, <<"Ping">>)
    ELSE
    LET stop == StopContainer(ctrs, ContainerName(name), fault) IN
    IF stop.err # Nil
    THEN Return(m, f, ctrs, ErrStop, stop.err, stop.reason, <<"Ping", "ContainerStop">>)
    ELSE
    LET apps == [m EXCEPT ![name].Status = StatusStopped]
        saved == saveConfig(apps, f, fault)
    IN Return(apps, saved.file, stop.containers,
              IF saved.ok THEN Nil ELSE ErrSave, Nil, Nil,
              <<"Ping", "ContainerStop", "WriteFile">>)

\* StartApp that marks the entry running only when it was marked stopped.
StartAppRun_OnlyFromStopped(m, f, ctrs, name, fault) ==
    IF ~IsAvailable(fault)
    THEN Return(m, f, ctrs, ErrUnavailable, Nil, DaemonError, <<"Ping">>)
    ELSE IF name \notin DOMAIN m
    THEN Return(m, f, ctrs, ErrNotFound, Nil, Nil, <<"Ping">>)
    ELSE
    LET start == StartContainer(ctrs, ContainerName(name), fault) IN
    IF start.err # Nil
    THEN Return(m, f, ctrs, ErrStart, start.err, start.reason, <<"Ping", "ContainerStart">>)
    ELSE
    LET apps == IF m[name].Status = StatusStopped
                THEN [m EXCEPT ![name].Status = StatusRunning] ELSE m
        saved == saveConfig(apps, f, fault)
    IN Return(apps, saved.file, start.containers,
              IF saved.ok THEN Nil ELSE ErrSave, Nil, Nil,
              <<"Ping", "ContainerStart", "WriteFile">>)

\* StartApp that declares the app running and persists before it asks the
\* daemon to start the container.
StartAppRun_MarksFirst(m, f, ctrs, name, fault) ==
    IF ~IsAvailable(fault)
    THEN Return(m, f, ctrs, ErrUnavailable, Nil, DaemonError, <<"Ping">>)
    ELSE IF name \notin DOMAIN m
    THEN Return(m, f, ctrs, ErrNotFound, Nil, Nil, <<"Ping">>)
    ELSE
    LET apps == [m EXCEPT ![name].Status = StatusRunning]
        saved == saveConfig(apps, f, fault)
        start == StartContainer(ctrs, ContainerName(name), fault)
    IN
    IF ~saved.ok
    THEN Return(apps, f, ctrs, ErrSave, Nil, Nil, <<"Ping", "WriteFile">>)
    ELSE IF start.err # Nil
    THEN Return(apps, saved.file, ctrs, ErrStart, start.err, start.reason,
                <<"Ping", "WriteFile", "ContainerStart">>)
    ELSE Return(apps, saved.file, start.containers, Nil, Nil, Nil,
                <<"Ping", "WriteFile", "ContainerStart">>)

\* Manager.StartApp
StartAppRun(m, f, ctrs, name, fault) ==
    IF ~IsAvailable(fault)
    THEN Return(m, f, ctrs, ErrUnavailable, Nil, DaemonError, <<"Ping">>)
    ELSE IF name \notin DOMAIN m
    THEN Return(m, f, ctrs, ErrNotFound, Nil, Nil, <<"Ping">>)
    ELSE
    LET start == StartContainer(ctrs, ContainerName(name), fault) IN
    IF start.err # Nil
    THEN Return(m, f, ctrs, ErrStart, start.err, start.reason, <<"Ping", "ContainerStart">>)
    ELSE
    LET apps == [m EXCEPT ![name].Status = StatusRunning]
        saved == saveConfig(apps, f, fault)
    IN Return(apps, saved.file, start.containers,
              IF saved.ok THEN Nil ELSE ErrSave, Nil, Nil,
              <<"Ping", "ContainerStart", "WriteFile">>)

\* RemoveApp that, forced, removes the container of a name without an entry.
RemoveAppRun_ForcedByContainer(m, f, ctrs, name, force, fault) ==
    IF ~IsAvailable(fault)
    THEN Return(m, f, ctrs, ErrUnavailable, Nil, DaemonError, <<"Ping">>)
    ELSE IF name \notin DOMAIN m /\ ~force
    THEN Return(m, f, ctrs, ErrNotFound, Nil, Nil, <<"Ping">>)
    ELSE
    LET rm == RemoveContainer(ctrs, ContainerName(name), force, fault) IN
    IF rm.err # Nil
    THEN Return(m, f, ctrs, ErrRemove, rm.err, rm.reason, <<"Ping", "ContainerRemove">>)
    ELSE
    LET apps == Delete(m, name)
        saved == saveConfig(apps, f, fault)
    IN Return(apps, saved.file, rm.containers,
              IF saved.ok THEN Nil ELSE ErrSave, Nil, Nil,
              <<"Ping", "ContainerRemove", "WriteFile">>)

\* Manager.RemoveApp
RemoveAppRun(m, f, ctrs, name, force, fault) ==
    IF ~IsAvailable(fault)
    THEN Return(m, f, ctrs, ErrUnavailable, Nil, DaemonError, <<"Ping">>)
    ELSE IF name \notin DOMAIN m
    THEN Return(m, f, ctrs, ErrNotFound, Nil, Nil, <<"Ping">>)
    ELSE
    LET rm == RemoveContainer(ctrs, ContainerName(name), force, fault) IN
    IF rm.err # Nil
    THEN Return(m, f, ctrs, ErrRemove, rm.err, rm.reason, <<"Ping", "ContainerRemove">>)
    ELSE
    LET apps == Delete(m, name)
        saved == saveConfig(apps, f, fault)
    IN Return(apps, saved.file, rm.containers,
              IF saved.ok THEN Nil ELSE ErrSave, Nil, Nil,
              <<"Ping", "ContainerRemove", "WriteFile">>)

\* containerStatus matching "exited" in lower case only.
containerStatus_CaseSensitive(text) ==
    IF Contains(text, ExitedText) THEN StatusStopped ELSE StatusRunning

\* manager.go:189-192: the status that a container's status text stands for
containerStatus(text) ==
    IF Contains(ToLower(text), ExitedText) THEN StatusStopped ELSE StatusRunning

\* manager.go:186-195: app name -> status, from the containers that carry the prefix
containerStatuses(list) ==
    LET prefixed == {c \in list : CutPrefix(c.Name, Prefix).found} IN
    [appName \in {CutPrefix(c.Name, Prefix).after : c \in prefixed} |->
        LET c == CHOOSE x \in prefixed : CutPrefix(x.Name, Prefix).after = appName IN
        containerStatus(c.Status)]

\* The reconciliation that also records the containers that have no entry.
Reconcile_Adopts(m, statuses) ==
    [name \in DOMAIN m \cup DOMAIN statuses |->
        IF name \in DOMAIN m
        THEN [m[name] EXCEPT !.Status = IF name \in DOMAIN statuses
                                        THEN statuses[name] ELSE StatusUnknown]
        ELSE [Name |-> name, Image |-> "", Port |-> << >>, EnvVars |-> NilMap,
              Volumes |-> << >>, Status |-> statuses[name]]]

\* manager.go:197-206: every entry takes the status of its container
Reconcile(m, statuses) ==
    [name \in DOMAIN m |->
        [m[name] EXCEPT !.Status = IF name \in DOMAIN statuses
                                   THEN statuses[name] ELSE StatusUnknown]]

\* ListApps that writes the document only when a status changed.
ListAppsRun_SavesOnChange(m, f, ctrs, fault) ==
    IF ~IsAvailable(fault)
    THEN Return(m, f, ctrs, ErrUnavailable, Nil, DaemonError, <<"Ping">>)
    ELSE IF fault = "ContainerList"
    THEN Return(m, f, ctrs, ErrList, ErrList, DaemonError, <<"Ping", "ContainerList">>)
    ELSE
    LET apps == Reconcile(m, containerStatuses(ListContainers(ctrs)))
        saved == saveConfig(apps, f, fault)
    IN IF apps = m
       THEN Return(apps, f, ctrs, Nil, Nil, Nil, <<"Ping", "ContainerList">>)
       ELSE Return(apps, saved.file, ctrs,
                   IF saved.ok THEN Nil ELSE ErrSave, Nil, Nil,
                   <<"Ping", "ContainerList", "WriteFile">>)

\* Manager.ListApps
ListAppsRun(m, f, ctrs, fault) ==
    IF ~IsAvailable(fault)
    THEN Return(m, f, ctrs, ErrUnavailable, Nil, DaemonError, <<"Ping">>)
    ELSE IF fault = "ContainerList"
    THEN Return(m, f, ctrs, ErrList, ErrList, DaemonError, <<"Ping", "ContainerList">>)
    ELSE
    LET apps == Reconcile(m, containerStatuses(ListContainers(ctrs)))
        saved == saveConfig(apps, f, fault)
    IN Return(apps, saved.file, ctrs,
              IF saved.ok THEN Nil ELSE ErrSave, Nil, Nil,
              <<"Ping", "ContainerList", "WriteFile">>)

---------------------------------------------------------------------------
(* The state machine.  One command runs per process (internal/cli/app.go): *)
(* it builds a Manager, which reads the document, calls one operation and  *)
(* exits.  last.op is "none" while no command is running.                  *)

DeployFaults == {"none", "Ping", "ContainerList", "ImagePull", "ContainerCreate",
                 "ContainerStart", "WriteFile"}
StopFaults == {"none", "Ping", "ContainerStop", "WriteFile"}
StartFaults == {"none", "Ping", "ContainerStart", "WriteFile"}
RemoveFaults == {"none", "Ping", "ContainerRemove", "WriteFile"}
ListFaults == {"none", "Ping", "ContainerList", "WriteFile"}

NoArgs == [image |-> "", port |-> << >>, env |-> NilMap, volumes |-> << >>]

Idle ==
    [op |-> "none", name |-> << >>, force |-> FALSE, args |-> NoArgs, fault |-> "none",
     err |-> Nil, via |-> Nil, reason |-> Nil, calls |-> << >>,
     pre |-> Absent, had |-> FALSE, was |-> ""]

\* app.NewManager: the registry of a new Manager is the document's.
NewManager(f) == loadConfig(f)

\* The record of a call on app `name` that ended with result r: fault is the
\* call that the daemon or the disk was to fail, pre the state of the app's
\* container, had whether the registry held the app and was the status of
\* its entry, all three when the call began.
Called(op, name, force, args, fault, r) ==
    [op |-> op, name |-> name, force |-> force, args |-> args, fault |-> fault,
     err |-> r.err, via |-> r.via, reason |-> r.reason, calls |-> r.calls,
     pre |-> containers[ContainerName(name)],
     had |-> name \in DOMAIN NewManager(file),
     was |-> IF name \in DOMAIN NewManager(file)
             THEN NewManager(file)[name].Status ELSE ""]

\* The commands of the usage scenario, in order: deploy, ps,
\* stop, ps, rm.
Scenario == <<"DeployApp", "ListApps", "StopApp", "ListApps", "RemoveApp">>

Off == <<"off">>

\* The scenario after the call `call`, given the part of it run so far: the
\* call extends it when it is the next command of Scenario, on app Web with
\* the first declaration, without force and with nothing failing.
Follow(done, call) ==
    IF /\ done # Off
       /\ Len(done) < Len(Scenario)
       /\ call.op = Scenario[Len(done) + 1]
       /\ call.fault = "none"
       /\ ~call.force
       /\ call.op # "ListApps" => call.name = Web
       /\ call.op = "DeployApp" => call.args = DeployArgs(1)
    THEN Append(done, call.op)
    ELSE Off

Apply(r) ==
    /\ config' = r.config
    /\ file' = r.file
    /\ containers' = r.containers
    /\ UNCHANGED <<invocations, networks, ensured,
                 labelCall, labelPrev, origin, installed, wizard>>

\* The containers that the model lets change; OtherContainer runs throughout.
AppContainers == {ContainerName(n) : n \in AppNames}

NoContainers == [cn \in ContainerNames |-> IF cn = OtherContainer THEN Running ELSE Absent]

NoFile == [exists |-> FALSE, apps |-> EmptyApps]

NoInvocations == << >>

NoNetworks == {}

NeverEnsured == [op |-> "none"]

\* No call into the label package yet.
NoLabelCall == [op |-> "none"]

\* No container whose image is followed.
NoOrigin == << >>

\* No call of the proxy installer yet.
NotInstalled == [op |-> "none"]

\* No wizard running.
NoWizard == [stage |-> "none"]

Init ==
    /\ config = EmptyApps
    /\ file = NoFile
    /\ containers = NoContainers
    /\ last = Idle
    /\ scenario = << >>
    /\ invocations = NoInvocations
    /\ networks = NoNetworks
    /\ ensured = NeverEnsured
    /\ labelCall = NoLabelCall
    /\ labelPrev = NoLabelCall
    /\ origin = NoOrigin
    /\ installed = NotInstalled
    /\ wizard = NoWizard

\* finks app deploy
DeployApp(name, args, fault) ==
    LET r == DeployAppRun(NewManager(file), file, containers, name, args, fault) IN
    /\ last.op = "none"
    /\ Apply(r)
    /\ last' = Called("DeployApp", name, FALSE, args, fault, r)
    /\ scenario' = Follow(scenario, last')

\* finks app stop
StopApp(name, fault) ==
    LET r == StopAppRun(NewManager(file), file, containers, name, fault) IN
    /\ last.op = "none"
    /\ Apply(r)
    /\ last' = Called("StopApp", name, FALSE, NoArgs, fault, r)
    /\ scenario' = Follow(scenario, last')

\* finks app start
StartApp(name, fault) ==
    LET r == StartAppRun(NewManager(file), file, containers, name, fault) IN
    /\ last.op = "none"
    /\ Apply(r)
    /\ last' = Called("StartApp", name, FALSE, NoArgs, fault, r)
    /\ scenario' = Follow(scenario, last')

\* finks app rm [--force]
RemoveApp(name, force, fault) ==
    LET r == RemoveAppRun(NewManager(file), file, containers, name, force, fault) IN
    /\ last.op = "none"
    /\ Apply(r)
    /\ last' = Called("RemoveApp", name, force, NoArgs, fault, r)
    /\ scenario' = Follow(scenario, last')

\* finks app ps
ListApps(fault) ==
    LET r == ListAppsRun(NewManager(file), file, containers, fault) IN
    /\ last.op = "none"
    /\ Apply(r)
    /\ last' = [Idle EXCEPT !.op = "ListApps", !.fault = fault, !.err = r.err,
                            !.via = r.via, !.reason = r.reason, !.calls = r.calls]
    /\ scenario' = Follow(scenario, last')

\* The command's process ends, and its Manager with it.
Exit ==
    /\ last.op # "none"
    /\ config' = EmptyApps
    /\ last' = Idle
    /\ UNCHANGED <<file, containers, scenario, invocations, networks, ensured,
                 labelCall, labelPrev, origin, installed, wizard>>

\* Between commands the daemon's containers change outside the Manager: a
\* container is run under an app's container name, a running container's
\* process exits, a container is removed.
OutsideRun(cn) ==
    /\ last.op = "none"
    /\ containers[cn] = Absent
    /\ containers' = [containers EXCEPT ![cn] = Running]
    /\ scenario' = Off
    /\ UNCHANGED <<config, file, last, invocations, networks, ensured,
                 labelCall, labelPrev, origin, installed, wizard>>

ContainerExits(cn) ==
    /\ last.op = "none"
    /\ containers[cn] = Running
    /\ containers' = [containers EXCEPT ![cn] = Exited]
    /\ scenario' = Off
    /\ UNCHANGED <<config, file, last, invocations, networks, ensured,
                 labelCall, labelPrev, origin, installed, wizard>>

OutsideRemove(cn) ==
    /\ last.op = "none"
    /\ containers[cn] # Absent
    /\ containers' = [containers EXCEPT ![cn] = Absent]
    /\ scenario' = Off
    /\ UNCHANGED <<config, file, last, invocations, networks, ensured,
                 labelCall, labelPrev, origin, installed, wizard>>

Next ==
    \/ \E name \in AppNames, args \in Specs, fault \in DeployFaults :
           DeployApp(name, args, fault)
    \/ \E name \in AppNames, fault \in StopFaults : StopApp(name, fault)
    \/ \E name \in AppNames, fault \in StartFaults : StartApp(name, fault)
    \/ \E name \in AppNames, force \in BOOLEAN, fault \in RemoveFaults :
           RemoveApp(name, force, fault)
    \/ \E fault \in ListFaults : ListApps(fault)
    \/ Exit
    \/ \E cn \in AppContainers : OutsideRun(cn)
    \/ \E cn \in AppContainers : ContainerExits(cn)
    \/ \E cn \in AppContainers : OutsideRemove(cn)

Spec == Init /\ [][Next]_vars

---------------------------------------------------------------------------
(* Two commands (deploy or ps), each its own process with its own Manager  *)
(* over the same daemon and the same document.  Every call of              *)
(* Manager.DeployApp and Manager.ListApps is a step of its own, so the     *)
(* calls of the two commands interleave freely; nothing in NewManager,     *)
(* DeployApp, ListApps or saveConfig takes a lock.                         *)

Invocations == {1, 2}

RaceName == Web

\* The commands that run side by side: finks app deploy, finks app ps.
RaceCommands ==
    {[cmd |-> "deploy", name |-> name, args |-> args] : name \in AppNames, args \in Specs}
        \cup {[cmd |-> "ps", name |-> << >>, args |-> NoArgs]}

\* A command that has not built its Manager yet.  loaded and saved place its
\* reading and its writing of the document among the writes of all commands:
\* loaded is the number of writes done when it read the document, saved is
\* the number of the write it did itself (0: none); created tells that the
\* daemon created a container for it.
Starting(c) ==
    [cmd |-> c.cmd, name |-> c.name, pc |-> "start", args |-> c.args,
     config |-> EmptyApps, err |-> Nil, loaded |-> 0, saved |-> 0, created |-> FALSE]

\* The number of writes of the document done so far.
Writes == Cardinality({j \in Invocations : invocations[j].saved > 0})

\* The invocation moves to pc, or ends with err when err is not Nil.
Goes(i, pc, err) ==
    invocations' = [invocations EXCEPT ![i].pc = IF err = Nil THEN pc ELSE "done",
                                       ![i].err = err]

RaceInit ==
    /\ config = EmptyApps
    /\ file = NoFile
    /\ containers = NoContainers
    /\ last = Idle
    /\ scenario = Off
    /\ invocations \in [Invocations -> {Starting(c) : c \in RaceCommands}]
    /\ networks = NoNetworks
    /\ ensured = NeverEnsured
    /\ labelCall = NoLabelCall
    /\ labelPrev = NoLabelCall
    /\ origin = NoOrigin
    /\ installed = NotInstalled
    /\ wizard = NoWizard

\* cli/app.go:71: app.NewManager reads the document.
RaceNewManager(i) ==
    /\ invocations[i].pc = "start"
    /\ invocations' = [invocations EXCEPT ![i].pc = "probe",
                                          ![i].config = NewManager(file),
                                          ![i].loaded = Writes]
    /\ UNCHANGED <<config, file, containers, last, scenario, networks, ensured,
                 labelCall, labelPrev, origin, installed, wizard>>

\* manager.go:58-60 and manager.go:177-179
RaceCheckDockerAvailable(i, fault) ==
    /\ invocations[i].pc = "probe"
    /\ Goes(i, IF invocations[i].cmd = "deploy" THEN "exists" ELSE "list",
            IF IsAvailable(fault) THEN Nil ELSE ErrUnavailable)
    /\ UNCHANGED <<config, file, containers, last, scenario, networks, ensured,
                 labelCall, labelPrev, origin, installed, wizard>>

\* The existence check under a lock held from the check until the command
\* ends: it waits while the other command is past its own check.
RaceContainerExists_Locked(i, fault) ==
    /\ invocations[i].pc = "exists"
    /\ \A j \in Invocations \ {i} : invocations[j].pc \notin {"pull", "run", "record"}
    /\ Goes(i, "pull",
            IF fault = "ContainerList" THEN ErrExistsCheck
            ELSE IF ContainerExists(containers, ContainerName(invocations[i].name))
            THEN ErrAlreadyExists ELSE Nil)
    /\ UNCHANGED <<config, file, containers, last, scenario, networks, ensured,
                 labelCall, labelPrev, origin, installed, wizard>>

\* manager.go:62-68
RaceContainerExists(i, fault) ==
    /\ invocations[i].pc = "exists"
    /\ Goes(i, "pull",
            IF fault = "ContainerList" THEN ErrExistsCheck
            ELSE IF ContainerExists(containers, ContainerName(invocations[i].name))
            THEN ErrAlreadyExists ELSE Nil)
    /\ UNCHANGED <<config, file, containers, last, scenario, networks, ensured,
                 labelCall, labelPrev, origin, installed, wizard>>

\* manager.go:70-72
RacePullImage(i, fault) ==
    /\ invocations[i].pc = "pull"
    /\ Goes(i, "run", IF PullImage(invocations[i].args.image, fault) THEN Nil ELSE ErrPull)
    /\ UNCHANGED <<config, file, containers, last, scenario, networks, ensured,
                 labelCall, labelPrev, origin, installed, wizard>>

\* manager.go:74-84
RaceRunContainer(i, fault) ==
    LET args == invocations[i].args
        runOpts == [Name |-> ContainerName(invocations[i].name), Image |-> args.image,
                    Port |-> args.port, EnvVars |-> args.env, Volumes |-> args.volumes]
        run == RunContainer(containers, runOpts, fault)
    IN
    /\ invocations[i].pc = "run"
    /\ containers' = run.containers
    /\ invocations' = [invocations EXCEPT
                           ![i].pc = IF run.err = Nil THEN "record" ELSE "done",
                           ![i].err = IF run.err = Nil THEN Nil ELSE ErrRun,
                           ![i].created = run.containers[runOpts.Name] # Absent
                                          /\ containers[runOpts.Name] = Absent]
    /\ UNCHANGED <<config, file, last, scenario, networks, ensured,
                 labelCall, labelPrev, origin, installed, wizard>>

\* The command has ended with err, its registry being apps; a nil err tells
\* that it wrote the document.
Ends(i, apps, err) ==
    invocations' = [invocations EXCEPT ![i].pc = "done", ![i].err = err,
                                       ![i].config = apps,
                                       ![i].saved = IF err = Nil THEN Writes + 1 ELSE 0]

\* The app recorded in the registry that the document holds at that moment,
\* read again before the write.
RaceRecord_Reloads(i, fault) ==
    LET r == DeployRecord(loadConfig(file), file, containers, invocations[i].name,
                          invocations[i].args, fault, << >>)
    IN
    /\ invocations[i].pc = "record"
    /\ file' = r.file
    /\ Ends(i, r.config, r.err)
    /\ UNCHANGED <<config, containers, last, scenario, networks, ensured,
                 labelCall, labelPrev, origin, installed, wizard>>

\* manager.go:86-102
RaceRecord(i, fault) ==
    LET r == DeployRecord(invocations[i].config, file, containers, invocations[i].name,
                          invocations[i].args, fault, << >>)
    IN
    /\ invocations[i].pc = "record"
    /\ file' = r.file
    /\ Ends(i, r.config, r.err)
    /\ UNCHANGED <<config, containers, last, scenario, networks, ensured,
                 labelCall, labelPrev, origin, installed, wizard>>

\* manager.go:181-206: the containers are listed and every entry of the
\* registry in memory takes the status of its container.
RaceListContainers(i, fault) ==
    /\ invocations[i].pc = "list"
    /\ invocations' =
           IF fault = "ContainerList"
           THEN [invocations EXCEPT ![i].pc = "done", ![i].err = ErrList]
           ELSE [invocations EXCEPT
                     ![i].pc = "save",
                     ![i].config = Reconcile(invocations[i].config,
                                             containerStatuses(ListContainers(containers)))]
    /\ UNCHANGED <<config, file, containers, last, scenario, networks, ensured,
                 labelCall, labelPrev, origin, installed, wizard>>

\* manager.go:208-210
RaceSaveConfig(i, fault) ==
    LET saved == saveConfig(invocations[i].config, file, fault) IN
    /\ invocations[i].pc = "save"
    /\ file' = saved.file
    /\ Ends(i, invocations[i].config, IF saved.ok THEN Nil ELSE ErrSave)
    /\ UNCHANGED <<config, containers, last, scenario, networks, ensured,
                 labelCall, labelPrev, origin, installed, wizard>>

RaceNext ==
    \E i \in Invocations :
        \/ RaceNewManager(i)
        \/ \E fault \in {"none", "Ping"} : RaceCheckDockerAvailable(i, fault)
        \/ \E fault \in {"none", "ContainerList"} : RaceContainerExists(i, fault)
        \/ \E fault \in {"none", "ImagePull"} : RacePullImage(i, fault)
        \/ \E fault \in {"none", "ContainerCreate", "ContainerStart"} :
               RaceRunContainer(i, fault)
        \/ \E fault \in {"none", "WriteFile"} : RaceRecord(i, fault)
        \/ \E fault \in {"none", "ContainerList"} : RaceListContainers(i, fault)
        \/ \E fault \in {"none", "WriteFile"} : RaceSaveConfig(i, fault)

RaceSpec == RaceInit /\ [][RaceNext]_vars

---------------------------------------------------------------------------
(* The network calls of the Docker client wrapper (docker package,         *)
(* EnsureNetwork and the calls under it) over the daemon's networks.  A    *)
(* network is [ID, Name, Driver, Labels]; the daemon gives a new network   *)
(* an identifier that no network has, and refuses to create a network      *)
(* under a name that one has already.                                      *)

NetworkNames == {"finks-traefik", "finks-default"}

Drivers == {"bridge", "overlay"}

LabelSets == {NilMap, [k \in {"finks.managed-by"} |-> "finks"]}

\* Number of identifiers the daemon has to give.
MaxNetworkIDs == 3

NetworkIDs == 1..MaxNetworkIDs

\* The identifier "" that is returned with an error.
NoID == 0

\* The networks called name.
Named(nets, name) == {net \in nets : net.Name = name}

\* Client.NetworkExists
NetworkExists(nets, name) == \E net \in nets : net.Name = name

\* Client.GetNetworkInfo: NetworkInspect of the network called name
GetNetworkInfo(nets, name) == CHOOSE net \in nets : net.Name = name

\* Client.CreateNetwork: id is the identifier the daemon gives.
CreateNetwork(nets, name, driver, labels, fault, id) ==
    IF fault = "NetworkCreate" \/ NetworkExists(nets, name)
    THEN [err |-> "failed to create network", ID |-> NoID, networks |-> nets]
    ELSE [err |-> Nil, ID |-> id,
          networks |-> nets \cup {[ID |-> id, Name |-> name, Driver |-> driver,
                                   Labels |-> labels]}]

\* EnsureNetwork that creates without looking for the network first.
EnsureNetwork_AlwaysCreates(nets, name, driver, labels, fault, id) ==
    LET made == CreateNetwork(nets, name, driver, labels, fault, id) IN
    [ID |-> made.ID, err |-> made.err, networks |-> made.networks,
     calls |-> <<"NetworkCreate">>]

\* EnsureNetwork that brings an existing network to the driver and labels
\* asked for.
EnsureNetwork_Reconciles(nets, name, driver, labels, fault, id) ==
    IF fault = "NetworkList"
    THEN [ID |-> NoID, err |-> "failed to check if network exists", networks |-> nets,
          calls |-> <<"NetworkList">>]
    ELSE IF NetworkExists(nets, name)
    THEN IF fault = "NetworkInspect"
         THEN [ID |-> NoID, err |-> "failed to get existing network info",
               networks |-> nets, calls |-> <<"NetworkList", "NetworkInspect">>]
         ELSE [ID |-> GetNetworkInfo(nets, name).ID, err |-> Nil,
               networks |-> (nets \ Named(nets, name))
                            \cup {[ID |-> GetNetworkInfo(nets, name).ID, Name |-> name,
                                   Driver |-> driver, Labels |-> labels]},
               calls |-> <<"NetworkList", "NetworkInspect">>]
    ELSE LET made == CreateNetwork(nets, name, driver, labels, fault, id) IN
         [ID |-> made.ID, err |-> made.err, networks |-> made.networks,
          calls |-> <<"NetworkList", "NetworkCreate">>]

\* Client.EnsureNetwork
EnsureNetwork(nets, name, driver, labels, fault, id) ==
    IF fault = "NetworkList"
    THEN [ID |-> NoID, err |-> "failed to check if network exists", networks |-> nets,
          calls |-> <<"NetworkList">>]
    ELSE IF NetworkExists(nets, name)
    THEN IF fault = "NetworkInspect"
         THEN [ID |-> NoID, err |-> "failed to get existing network info",
               networks |-> nets, calls |-> <<"NetworkList", "NetworkInspect">>]
         ELSE [ID |-> GetNetworkInfo(nets, name).ID, err |-> Nil, networks |-> nets,
               calls |-> <<"NetworkList", "NetworkInspect">>]
    ELSE LET made == CreateNetwork(nets, name, driver, labels, fault, id) IN
         [ID |-> made.ID, err |-> made.err, networks |-> made.networks,
          calls |-> <<"NetworkList", "NetworkCreate">>]

NetworkFaults == {"none", "NetworkList", "NetworkInspect", "NetworkCreate"}

\* No EnsureNetwork call is the most recent step; returned holds, by name,
\* the identifier that EnsureNetwork returned for the network that exists.
NoCall(returned) ==
    [op |-> "none", name |-> "", driver |-> "", labels |-> NilMap, fault |-> "none",
     ID |-> NoID, err |-> Nil, calls |-> << >>, prev |-> NoID, returned |-> returned]

NetworkInit ==
    /\ config = EmptyApps
    /\ file = NoFile
    /\ containers = NoContainers
    /\ last = Idle
    /\ scenario = Off
    /\ invocations = NoInvocations
    /\ networks = NoNetworks
    /\ ensured = NoCall([name \in NetworkNames |-> NoID])
    /\ labelCall = NoLabelCall
    /\ labelPrev = NoLabelCall
    /\ origin = NoOrigin
    /\ installed = NotInstalled
    /\ wizard = NoWizard

\* A caller of Client.EnsureNetwork, as ensureTraefikNetwork of the proxy
\* package is.
EnsureNetworkCall(name, driver, labels, fault, id) ==
    LET r == EnsureNetwork(networks, name, driver, labels, fault, id) IN
    /\ \A net \in networks : net.ID # id
    /\ networks' = r.networks
    /\ ensured' = [op |-> "EnsureNetwork", name |-> name, driver |-> driver,
                   labels |-> labels, fault |-> fault,
                   ID |-> r.ID, err |-> r.err, calls |-> r.calls,
                   prev |-> ensured.returned[name],
                   returned |-> IF r.err = Nil
                                THEN [ensured.returned EXCEPT ![name] = r.ID]
                                ELSE ensured.returned]
    /\ UNCHANGED <<config, file, containers, last, scenario, invocations,
                 labelCall, labelPrev, origin, installed, wizard>>

\* docker network create, by someone else
OutsideNetworkCreate(name, driver, id) ==
    /\ ~NetworkExists(networks, name)
    /\ \A net \in networks : net.ID # id
    /\ networks' = networks \cup {[ID |-> id, Name |-> name, Driver |-> driver,
                                    Labels |-> NilMap]}
    /\ ensured' = NoCall(ensured.returned)
    /\ UNCHANGED <<config, file, containers, last, scenario, invocations,
                 labelCall, labelPrev, origin, installed, wizard>>

\* docker network rm, by someone else
OutsideNetworkRemove(name) ==
    /\ NetworkExists(networks, name)
    /\ networks' = networks \ Named(networks, name)
    /\ ensured' = NoCall([ensured.returned EXCEPT ![name] = NoID])
    /\ UNCHANGED <<config, file, containers, last, scenario, invocations,
                 labelCall, labelPrev, origin, installed, wizard>>

NetworkNext ==
    \/ \E name \in NetworkNames, driver \in Drivers, labels \in LabelSets,
          fault \in NetworkFaults, id \in NetworkIDs :
           EnsureNetworkCall(name, driver, labels, fault, id)
    \/ \E name \in NetworkNames, driver \in Drivers, id \in NetworkIDs :
           OutsideNetworkCreate(name, driver, id)
    \/ \E name \in NetworkNames : OutsideNetworkRemove(name)

NetworkSpec == NetworkInit /\ [][NetworkNext]_vars

---------------------------------------------------------------------------
(* Traefik labels: internal/traefik/labels.go.  A label key or value built *)
(* by fmt.Sprintf is the triple <<text before, argument, text after>> with *)
(* the argument a sequence of characters; a literal is a triple with an    *)
(* empty argument.  Identifiers hold no dot, so two keys are the same      *)
(* string exactly when they are the same triple.                           *)

\* Longest app name and domain tried character by character.
MaxNameLen == 3

NameAlphabet == {"A", "b", "_", " ", "-", "1", "."}

Tab == "\t"
Newline == "\n"
EAcute == "\\u00e9"
DomainAlphabet == {"a", ".", " ", Tab, EAcute}

\* Every string over alphabet of at most n characters.
Strings(alphabet, n) == UNION {[1..k -> alphabet] : k \in 0..n}

\* strings.Repeat of a one-character string
Repeat(c, n) == [i \in 1..n |-> c]

MyApp == <<"M", "y", " ", "A", "p", "p">>
MySpaceApp == <<"m", "y", " ", "a", "p", "p">>
MyUnderscoreApp == <<"m", "y", "_", "a", "p", "p">>
LabelApps == {MyApp, MySpaceApp, MyUnderscoreApp, Web}

MyAppDomain == <<"m", "y", "-", "a", "p", "p", ".", "e", "x", "a", "m", "p", "l", "e",
                 ".", "c", "o", "m">>
WebDomain == <<"w", "e", "b", ".", "l", "o", "c", "a", "l">>
LabelDomains == {MyAppDomain, WebDomain}

NoPortText == << >>
LabelPorts == {NoPortText, <<"8", "0">>}

DefaultNetwork == "finks-network"
EntrypointWeb == "web"
EntrypointWebSecure == "websecure"

\* The text around the domain in a rule, labels.go:21: Host( and a backquote
\* before it, a backquote and ) after it.
HostOpen == "Host(<backquote>"
HostClose == "<backquote>)"

\* fmt.Sprintf with one %s
Sprintf(before, arg, after) == <<before, arg, after>>

\* a string literal
Text(s) == <<s, << >>, "">>

\* make(map[string]string)
NoLabels == [k \in {} |-> Text("")]

\* strings.ReplaceAll of a one-character string by another
ReplaceAll(s, old, new) == [i \in 1..Len(s) |-> IF s[i] = old THEN new ELSE s[i]]

\* The filter that also lets the dot through.
IsRouterChar_KeepsDot(c) ==
    \/ \E i \in 1..Len(LowerAlphabet) : LowerAlphabet[i] = c
    \/ IsDigit(c)
    \/ c \in {"-", "."}

\* labels.go:209: (r >= 'a' && r <= 'z') || (r >= '0' && r <= '9') || r == '-'
IsRouterChar(c) ==
    \/ \E i \in 1..Len(LowerAlphabet) : LowerAlphabet[i] = c
    \/ IsDigit(c)
    \/ c = "-"

\* The filter of the original characters.
IsPlainChar(c) ==
    \/ \E i \in 1..Len(LowerAlphabet) : LowerAlphabet[i] = c
    \/ \E i \in 1..Len(UpperAlphabet) : UpperAlphabet[i] = c
    \/ IsDigit(c)
    \/ c \in {"_", " "}

\* sanitizeRouterName that filters the name before it puts the hyphens in.
sanitizeRouterName_FiltersFirst(appName) ==
    ToLower(ReplaceAll(ReplaceAll(SelectSeq(appName, IsPlainChar), "_", "-"), " ", "-"))

\* sanitizeRouterName that turns only the space into a hyphen.
sanitizeRouterName_KeepsUnderscore(appName) ==
    LET kept(c) == IsRouterChar(c) \/ c = "_"
    IN SelectSeq(ToLower(ReplaceAll(appName, " ", "-")), kept)

\* sanitizeRouterName, labels.go:201-216
sanitizeRouterName(appName) ==
    LET sanitized == ToLower(ReplaceAll(ReplaceAll(appName, "_", "-"), " ", "-"))
    IN SelectSeq(sanitized, IsRouterChar)

\* sanitizeServiceName, labels.go:219-222
sanitizeServiceName(appName) == sanitizeRouterName(appName)

RouterKey(routerName, after) == Sprintf("traefik.http.routers.", routerName, after)

Redirect == <<"-", "r", "e", "d", "i", "r", "e", "c", "t">>

\* labels.go:17-18
BasicLabels ==
    << <<Text("traefik.enable"), Text("true")>>,
       <<Text("traefik.docker.network"), Text(DefaultNetwork)>> >>

\* labels.go:21-22
RouterLabels(routerName, serviceName, domain) ==
    << <<RouterKey(routerName, ".rule"), Sprintf(HostOpen, domain, HostClose)>>,
       <<RouterKey(routerName, ".service"), Sprintf("", serviceName, "")>> >>

ServicePortKey(serviceName) ==
    Sprintf("traefik.http.services.", serviceName, ".loadbalancer.server.port")

\* The port label written whatever the port is.
ServiceLabels_Always(serviceName, port) ==
    << <<ServicePortKey(serviceName), Sprintf("", port, "")>> >>

\* labels.go:25-27
ServiceLabels(serviceName, port) ==
    IF port # NoPortText
    THEN << <<ServicePortKey(serviceName), Sprintf("", port, "")>> >>
    ELSE << >>

\* Local mode bound to the secure entrypoint with TLS.
LocalLabels_Secure(routerName) ==
    << <<RouterKey(routerName, ".entrypoints"), Text(EntrypointWebSecure)>>,
       <<RouterKey(routerName, ".tls"), Text("true")>> >>

\* labels.go:30-32
LocalLabels(routerName) ==
    << <<RouterKey(routerName, ".entrypoints"), Text(EntrypointWeb)>> >>

MiddlewareScheme == Text("traefik.http.middlewares.https-redirect.redirectscheme.scheme")
MiddlewarePermanent ==
    Text("traefik.http.middlewares.https-redirect.redirectscheme.permanent")

\* Managed mode with a redirect middleware of the app's own.
ManagedLabels_OwnMiddleware(routerName, domain) ==
    LET redirectRouterName == routerName \o Redirect IN
    << <<RouterKey(routerName, ".entrypoints"), Text(EntrypointWebSecure)>>,
       <<RouterKey(routerName, ".tls"), Text("true")>>,
       <<RouterKey(routerName, ".tls.certresolver"), Text("letsencrypt")>>,
       <<RouterKey(redirectRouterName, ".rule"), Sprintf(HostOpen, domain, HostClose)>>,
       <<RouterKey(redirectRouterName, ".entrypoints"), Text(EntrypointWeb)>>,
       <<RouterKey(redirectRouterName, ".middlewares"), Sprintf("", redirectRouterName, "")>>,
       <<Sprintf("traefik.http.middlewares.", redirectRouterName, ".redirectscheme.scheme"),
         Text("https")>>,
       <<Sprintf("traefik.http.middlewares.", redirectRouterName, ".redirectscheme.permanent"),
         Text("true")>> >>

\* labels.go:34-47
ManagedLabels(routerName, domain) ==
    LET redirectRouterName == routerName \o Redirect IN
    << <<RouterKey(routerName, ".entrypoints"), Text(EntrypointWebSecure)>>,
       <<RouterKey(routerName, ".tls"), Text("true")>>,
       <<RouterKey(routerName, ".tls.certresolver"), Text("letsencrypt")>>,
       <<RouterKey(redirectRouterName, ".rule"), Sprintf(HostOpen, domain, HostClose)>>,
       <<RouterKey(redirectRouterName, ".entrypoints"), Text(EntrypointWeb)>>,
       <<RouterKey(redirectRouterName, ".middlewares"), Text("https-redirect")>>,
       <<MiddlewareScheme, Text("https")>>,
       <<MiddlewarePermanent, Text("true")>> >>

\* The assignments labels[key] = value of GenerateLabels, in the order of the code.
LabelAssignments(appName, domain, port, localMode) ==
    LET routerName == sanitizeRouterName(appName)
        serviceName == sanitizeServiceName(appName)
    IN BasicLabels
       \o RouterLabels(routerName, serviceName, domain)
       \o ServiceLabels(serviceName, port)
       \o (IF localMode THEN LocalLabels(routerName) ELSE ManagedLabels(routerName, domain))

RECURSIVE Assign(_, _)
\* labels[key] = value for each assignment in turn
Assign(labels, assignments) ==
    IF assignments = << >> THEN labels
    ELSE Assign(Put(labels, Head(assignments)[1], Head(assignments)[2]), Tail(assignments))

\* GenerateLabels, labels.go:9-51
GenerateLabels(appName, domain, port, localMode) ==
    Assign(NoLabels, LabelAssignments(appName, domain, port, localMode))

\* len of a string: its length in bytes of UTF-8
ByteLen(s) == Len(s) + Len(SelectSeq(s, LAMBDA c : c = EAcute))

MaxDomainLen == 253

\* ValidateDomain, labels.go:168-187
ValidateDomain(domain) ==
    IF domain = << >> THEN "domain cannot be empty"
    ELSE IF Contains(domain, <<" ">>) THEN "domain cannot contain spaces"
    ELSE IF domain[1] = "." \/ domain[Len(domain)] = "."
    THEN "domain cannot start or end with a dot"
    ELSE IF ByteLen(domain) > MaxDomainLen THEN "domain is too long (max 253 characters)"
    ELSE Nil

\* The domains handed to ValidateDomain.
SampleDomains ==
    Strings(DomainAlphabet, MaxNameLen)
        \cup LabelDomains
        \cup {Repeat("a", MaxDomainLen), Repeat("a", MaxDomainLen + 1),
              Repeat(EAcute, 127), <<"a", Newline, "b">>}

\* The earlier call kept for comparison: the one kept so far, or the last one.
Remember(keep) ==
    IF keep \/ labelCall.op # "GenerateLabels" THEN labelPrev ELSE labelCall

LabelInit ==
    /\ config = EmptyApps
    /\ file = NoFile
    /\ containers = NoContainers
    /\ last = Idle
    /\ scenario = Off
    /\ invocations = NoInvocations
    /\ networks = NoNetworks
    /\ ensured = NeverEnsured
    /\ labelCall = NoLabelCall
    /\ labelPrev = NoLabelCall
    /\ origin = NoOrigin
    /\ installed = NotInstalled
    /\ wizard = NoWizard

\* A caller of GenerateLabels whose map outlives the call.
GenerateLabelsCall_KeepsMap(appName, domain, port, localMode, keep) ==
    /\ labelCall.op \in {"none", "GenerateLabels"}
    /\ labelCall' = [op |-> "GenerateLabels", appName |-> appName, domain |-> domain,
                     port |-> port, localMode |-> localMode,
                     out |-> Assign(IF labelCall.op = "GenerateLabels"
                                    THEN labelCall.out ELSE NoLabels,
                                    LabelAssignments(appName, domain, port, localMode))]
    /\ labelPrev' = Remember(keep)
    /\ UNCHANGED <<config, file, containers, last, scenario, invocations, networks, ensured,
                 origin, installed, wizard>>

\* One call of GenerateLabels, after any number of earlier ones.
GenerateLabelsCall(appName, domain, port, localMode, keep) ==
    /\ labelCall.op \in {"none", "GenerateLabels"}
    /\ labelCall' = [op |-> "GenerateLabels", appName |-> appName, domain |-> domain,
                     port |-> port, localMode |-> localMode,
                     out |-> GenerateLabels(appName, domain, port, localMode)]
    /\ labelPrev' = Remember(keep)
    /\ UNCHANGED <<config, file, containers, last, scenario, invocations, networks, ensured,
                 origin, installed, wizard>>

\* One call of sanitizeRouterName and of sanitizeServiceName on a name.  The
\* functions read nothing but the name: each name is tried in a run of its own.
SanitizeCall ==
    /\ labelCall = NoLabelCall
    /\ \E appName \in Strings(NameAlphabet, MaxNameLen) \cup LabelApps :
           labelCall' = [op |-> "sanitizeRouterName", appName |-> appName,
                         out |-> sanitizeRouterName(appName),
                         service |-> sanitizeServiceName(appName)]
    /\ labelPrev' = Remember(TRUE)
    /\ UNCHANGED <<config, file, containers, last, scenario, invocations, networks, ensured,
                 origin, installed, wizard>>

\* One call of ValidateDomain, each domain in a run of its own.
ValidateDomainCall ==
    /\ labelCall = NoLabelCall
    /\ \E domain \in SampleDomains :
           labelCall' = [op |-> "ValidateDomain", domain |-> domain,
                         err |-> ValidateDomain(domain)]
    /\ labelPrev' = Remember(TRUE)
    /\ UNCHANGED <<config, file, containers, last, scenario, invocations, networks, ensured,
                 origin, installed, wizard>>

LabelNext ==
    \/ \E appName \in LabelApps, domain \in LabelDomains, port \in LabelPorts,
          localMode \in BOOLEAN, keep \in BOOLEAN :
           GenerateLabelsCall(appName, domain, port, localMode, keep)
    \/ SanitizeCall
    \/ ValidateDomainCall

LabelSpec == LabelInit /\ [][LabelNext]_vars

---------------------------------------------------------------------------
(* The proxy installer and the proxy manager's status: InstallTraefik,      *)
(* finks app deploy and GetStatus against one daemon (ProxySpec)            *)

Traefik == <<"t", "r", "a", "e", "f", "i", "k">>

traefikNetworkName == "finks-traefik"

traefikContainerName == <<"f", "i", "n", "k", "s", "-", "t", "r", "a", "e", "f", "i", "k">>

traefikImage == "traefik:v3.0"

\* The application names deployed next to the proxy.
ProxyNames == {Traefik, Web}

ProxyContainers == {ContainerName(n) : n \in ProxyNames}

RunningText == <<"r", "u", "n", "n", "i", "n", "g">>

\* buildPortMapping: "80:80" in local mode, "80:80,443:443" otherwise
buildPortMapping(localMode) ==
    IF localMode
    THEN <<"8", "0", ":", "8", "0">>
    ELSE <<"8", "0", ":", "8", "0", ",", "4", "4", "3", ":", "4", "4", "3">>

\* Client.GetContainerStatus: the status text of the container called name
GetContainerStatus(ctrs, name, fault) ==
    IF fault = "ContainerStatus"
    THEN [err |-> "failed to list containers", status |-> << >>]
    ELSE IF ~ContainerExists(ctrs, name)
    THEN [err |-> "container not found", status |-> << >>]
    ELSE [err |-> Nil, status |-> StatusText(ctrs[name])]

\* What InstallTraefik gives back: its error, the daemon's networks and
\* containers afterwards and the daemon calls it issued, in order.
Installed(err, nets, ctrs, calls) ==
    [err |-> err, networks |-> nets, containers |-> ctrs, calls |-> calls]

\* InstallTraefik, the branch of a container that is not there: pull and run.
InstallRun(nets, ctrs, localMode, fault, issued) ==
    IF ~PullImage(traefikImage, fault)
    THEN Installed("failed to pull Traefik image", nets, ctrs, Append(issued, "ImagePull"))
    ELSE
    \* The environment and the volumes of the proxy are left out of opts: the
    \* daemon's containers are told apart by name and state only.
    LET opts == [Name |-> traefikContainerName, Image |-> traefikImage,
                 Port |-> buildPortMapping(localMode), EnvVars |-> NilMap,
                 Volumes |-> << >>]
        run == RunContainer(ctrs, opts, fault)
    IN Installed(IF run.err # Nil THEN "failed to run Traefik container" ELSE Nil,
                 nets, run.containers, Append(issued, "ImagePull") \o run.calls)

\* InstallTraefik, the branch of a container that is there: start it unless
\* its status text holds "running".
InstallStart(nets, ctrs, fault, issued) ==
    LET status == GetContainerStatus(ctrs, traefikContainerName, fault) IN
    IF status.err # Nil
    THEN Installed("failed to get Traefik container status", nets, ctrs,
                   Append(issued, "ContainerList"))
    ELSE IF Contains(ToLower(status.status), RunningText)
    THEN Installed(Nil, nets, ctrs, Append(issued, "ContainerList"))
    ELSE
    LET start == StartContainer(ctrs, traefikContainerName, fault) IN
    Installed(IF start.err # Nil THEN "failed to start existing Traefik container"
              ELSE Nil,
              nets, start.containers, issued \o <<"ContainerList", "ContainerStart">>)

\* InstallTraefik that pulls the image and runs the container without looking
\* for it.
InstallTraefik_AlwaysRuns(nets, ctrs, localMode, fault, id) ==
    LET net == EnsureNetwork(nets, traefikNetworkName, "bridge", NilMap, fault, id) IN
    IF net.err # Nil
    THEN Installed("failed to ensure Traefik network", net.networks, ctrs, net.calls)
    ELSE InstallRun(net.networks, ctrs, localMode, fault, net.calls)

\* InstallTraefik
InstallTraefik(nets, ctrs, localMode, fault, id) ==
    LET net == EnsureNetwork(nets, traefikNetworkName, "bridge", NilMap, fault, id) IN
    IF net.err # Nil
    THEN Installed("failed to ensure Traefik network", net.networks, ctrs, net.calls)
    ELSE IF fault = "ContainerList"
    THEN Installed("failed to check if Traefik container exists", net.networks, ctrs,
                   Append(net.calls, "ContainerList"))
    ELSE IF ContainerExists(ctrs, traefikContainerName)
    THEN InstallStart(net.networks, ctrs, fault, Append(net.calls, "ContainerList"))
    ELSE InstallRun(net.networks, ctrs, localMode, fault,
                    Append(net.calls, "ContainerList"))

\* The proxy manager's Manager.GetStatus: cached is the status of its
\* configuration, which it gives back when the daemon does not answer.
GetStatus(ctrs, cached, fault) ==
    IF ~IsAvailable(fault) \/ fault = "ContainerList"
    THEN [found |-> FALSE, text |-> << >>, Status |-> cached]
    ELSE IF \E container \in ListContainers(ctrs) : container.Name = traefikContainerName
    THEN LET container == CHOOSE c \in ListContainers(ctrs) :
                              c.Name = traefikContainerName
         IN [found |-> TRUE, text |-> container.Status,
             Status |-> IF container.Status = RunningText
                        THEN StatusRunning ELSE StatusStopped]
    ELSE [found |-> FALSE, text |-> << >>, Status |-> StatusStopped]

InstallFaults == {"none", "NetworkList", "NetworkInspect", "NetworkCreate",
                  "ContainerList", "ContainerStatus", "ContainerStart",
                  "ImagePull", "ContainerCreate"}

ProxyDeployFaults == {"none", "ContainerStart"}

\* What finks app deploy is given next to the proxy.
ProxyDeployArgs == {DeployArgs(1)}

StatusFaults == {"none", "Ping", "ContainerList"}

\* The image each container was created from; NoImage: no container.
NoImage == ""

\* origin after a step from ctrs to after in which image is the image run.
CreatedFrom(was, ctrs, after, image) ==
    [cn \in DOMAIN was |->
        IF ctrs[cn] = Absent /\ after[cn] # Absent THEN image ELSE was[cn]]

ProxyInit ==
    /\ config = EmptyApps
    /\ file = NoFile
    /\ containers = [cn \in ProxyContainers |-> Absent]
    /\ last = Idle
    /\ scenario = << >>
    /\ invocations = NoInvocations
    /\ networks = NoNetworks
    /\ ensured = NeverEnsured
    /\ labelCall = NoLabelCall
    /\ labelPrev = NoLabelCall
    /\ origin = [cn \in ProxyContainers |-> NoImage]
    /\ installed = NotInstalled
    /\ wizard = NoWizard

\* InstallTraefik, called by the setup of the host
InstallTraefikCall(localMode, fault, id) ==
    LET r == InstallTraefik(networks, containers, localMode, fault, id) IN
    /\ \A net \in networks : net.ID # id
    /\ networks' = r.networks
    /\ containers' = r.containers
    /\ origin' = CreatedFrom(origin, containers, r.containers, traefikImage)
    /\ installed' = [op |-> "InstallTraefik", err |-> r.err, calls |-> r.calls]
    /\ UNCHANGED <<config, file, last, scenario, invocations, ensured,
                   labelCall, labelPrev, wizard>>

\* finks app deploy, next to the proxy
ProxyDeployApp(name, args, fault) ==
    LET r == DeployAppRun(NewManager(file), file, containers, name, args, fault) IN
    /\ file' = r.file
    /\ containers' = r.containers
    /\ origin' = CreatedFrom(origin, containers, r.containers, args.image)
    /\ installed' = [op |-> "DeployApp", name |-> name, err |-> r.err]
    /\ UNCHANGED <<config, last, scenario, invocations, networks, ensured,
                   labelCall, labelPrev, wizard>>

\* A running container ends.
ProxyContainerExits(cn) ==
    /\ containers[cn] = Running
    /\ containers' = [containers EXCEPT ![cn] = Exited]
    /\ installed' = [op |-> "exit", name |-> cn]
    /\ UNCHANGED <<config, file, last, scenario, invocations, networks, ensured,
                   labelCall, labelPrev, origin, wizard>>

\* finks proxy status
GetStatusCall(cached, fault) ==
    LET r == GetStatus(containers, cached, fault) IN
    /\ installed' = [op |-> "GetStatus", found |-> r.found, text |-> r.text,
                     Status |-> r.Status]
    /\ UNCHANGED <<config, file, containers, last, scenario, invocations, networks,
                   ensured, labelCall, labelPrev, origin, wizard>>

ProxyNext ==
    \/ \E localMode \in BOOLEAN, fault \in InstallFaults, id \in NetworkIDs :
           InstallTraefikCall(localMode, fault, id)
    \/ \E name \in ProxyNames, args \in ProxyDeployArgs, fault \in ProxyDeployFaults :
           ProxyDeployApp(name, args, fault)
    \/ \E cn \in ProxyContainers : ProxyContainerExits(cn)
    \/ \E cached \in {StatusRunning, StatusStopped}, fault \in StatusFaults :
           GetStatusCall(cached, fault)

ProxySpec == ProxyInit /\ [][ProxyNext]_vars

---------------------------------------------------------------------------
(* The setup wizard: WizardState.Advance and model.Update under the event   *)
(* loop that delivers the messages (WizardSpec, WizardFairSpec)             *)

StageWelcome == 0
StageChecking == 1
StagePromptInstall == 2
StageInstalling == 3
StageVerifying == 4
StageDone == 5

\* The longest list of requirements.
MaxRequirements == 2

\* A requirement, as far as the wizard looks at it: its name and whether it
\* can be installed on this system.
Requirement == [Name : {"Docker"}, CanAutoInstall : BOOLEAN]

RequirementLists ==
    UNION {[1..n -> Requirement] : n \in 0..MaxRequirements}

\* A nil tea.Cmd
NoCmd == [type |-> "nil"]

WelcomeTick == [type |-> "welcomeTick"]
QuitTick == [type |-> "quitTick"]
Quit == [type |-> "Quit"]

welcomeDoneMsg == [type |-> "welcomeDoneMsg"]
doneQuitMsg == [type |-> "doneQuitMsg"]
enterPressedMsg == [type |-> "enterPressedMsg"]

KeyMsg(key) == [type |-> "KeyMsg", key |-> key]

\* NewWizardState, over the list that AllRequirements gives
NewWizardState(reqs) ==
    [Stage |-> StageWelcome, Requirements |-> reqs, ReqIndex |-> 0,
     CurrentReqName |-> "", CurrentCanAutoInstall |-> FALSE,
     CheckResult |-> [OK |-> FALSE], VerifyOK |-> FALSE, VerifyErr |-> FALSE,
     InstallErr |-> FALSE, Quitting |-> FALSE]

\* CurrentRequirement returns nil when this does not hold.
HasCurrentRequirement(s) == s.ReqIndex < Len(s.Requirements)

\* WizardState.CurrentRequirement, for an index within the list
CurrentRequirement(s) == s.Requirements[s.ReqIndex + 1]

\* What Advance and Update give back: the state and the command to run.
Advanced(s, cmd) == [state |-> s, cmd |-> cmd]

\* WizardState.startCheckingCurrentRequirement
startCheckingCurrentRequirement(s) ==
    IF ~HasCurrentRequirement(s)
    THEN Advanced([s EXCEPT !.Stage = StageDone, !.VerifyOK = TRUE], NoCmd)
    ELSE Advanced([s EXCEPT !.Stage = StageChecking],
                  [type |-> "CheckRequirementCmd", Index |-> s.ReqIndex])

\* advanceToNextRequirementOrDone that does not move on in the list.
advanceToNextRequirementOrDone_Stays(s) ==
    startCheckingCurrentRequirement(s)

\* WizardState.advanceToNextRequirementOrDone
advanceToNextRequirementOrDone(s) ==
    LET next == [s EXCEPT !.ReqIndex = @ + 1] IN
    IF next.ReqIndex >= Len(next.Requirements)
    THEN Advanced([next EXCEPT !.Stage = StageDone, !.VerifyOK = TRUE], NoCmd)
    ELSE startCheckingCurrentRequirement(next)

\* Advance in StageChecking, on the result of the check
AdvanceChecking(s, msg) ==
    LET checked == [s EXCEPT !.CheckResult = [OK |-> msg.OK]] IN
    IF msg.OK THEN advanceToNextRequirementOrDone(checked)
    ELSE IF HasCurrentRequirement(checked)
    THEN Advanced([checked EXCEPT
                      !.Stage = StagePromptInstall,
                      !.CurrentReqName = CurrentRequirement(checked).Name,
                      !.CurrentCanAutoInstall =
                          CurrentRequirement(checked).CanAutoInstall],
                  NoCmd)
    ELSE Advanced([checked EXCEPT !.Stage = StagePromptInstall], NoCmd)

\* Advance in StagePromptInstall, on Enter
AdvancePromptInstall(s) ==
    IF ~HasCurrentRequirement(s)
    THEN Advanced([s EXCEPT !.Stage = StageDone], NoCmd)
    ELSE IF CurrentRequirement(s).CanAutoInstall
    THEN Advanced([s EXCEPT !.Stage = StageInstalling],
                  [type |-> "InstallRequirementCmd", Index |-> s.ReqIndex])
    ELSE Advanced([s EXCEPT !.Stage = StageVerifying],
                  [type |-> "VerifyRequirementCmd", Index |-> s.ReqIndex])

\* Advance in StageInstalling, on the result of the installation
AdvanceInstalling(s, msg) ==
    LET tried == [s EXCEPT !.InstallErr = msg.Err] IN
    IF ~HasCurrentRequirement(tried)
    THEN Advanced([tried EXCEPT !.Stage = StageDone], NoCmd)
    ELSE Advanced([tried EXCEPT !.Stage = StageVerifying],
                  [type |-> "VerifyRequirementCmd", Index |-> s.ReqIndex])

\* Advance in StageVerifying, on the result of the verification
AdvanceVerifying(s, msg) ==
    LET verified == [s EXCEPT !.VerifyOK = msg.OK, !.VerifyErr = ~msg.OK] IN
    IF msg.OK THEN advanceToNextRequirementOrDone(verified)
    ELSE Advanced([verified EXCEPT !.Stage = StageDone], NoCmd)

\* The message that Advance acts on in each stage; StageDone has none.
Expected(stage, msg) ==
    \/ stage = StageWelcome /\ msg.type = "welcomeDoneMsg"
    \/ stage = StageChecking /\ msg.type = "CheckRequirementMsg"
    \/ stage = StagePromptInstall /\ msg.type = "enterPressedMsg"
    \/ stage = StageInstalling /\ msg.type = "InstallRequirementMsg"
    \/ stage = StageVerifying /\ msg.type = "VerifyRequirementMsg"

\* WizardState.Advance
Advance(s, msg) ==
    IF ~Expected(s.Stage, msg) THEN Advanced(s, NoCmd)
    ELSE CASE s.Stage = StageWelcome -> startCheckingCurrentRequirement(s)
           [] s.Stage = StageChecking -> AdvanceChecking(s, msg)
           [] s.Stage = StagePromptInstall -> AdvancePromptInstall(s)
           [] s.Stage = StageInstalling -> AdvanceInstalling(s, msg)
           [] s.Stage = StageVerifying -> AdvanceVerifying(s, msg)

QuitKeys == {"q", "esc", "ctrl+c"}

\* model.Update
Update(s, msg) ==
    IF msg.type = "KeyMsg" /\ msg.key \in QuitKeys
    THEN Advanced([s EXCEPT !.Quitting = TRUE], Quit)
    ELSE IF msg.type = "KeyMsg" /\ s.Stage = StagePromptInstall /\ msg.key = "enter"
    THEN Advance(s, enterPressedMsg)
    ELSE
    LET a == Advance(s, msg) IN
    IF a.cmd # NoCmd THEN a
    ELSE IF a.state.Stage = StageDone
            /\ msg.type \in {"VerifyRequirementMsg", "CheckRequirementMsg"}
    THEN Advanced(a.state, QuitTick)
    ELSE IF msg.type = "doneQuitMsg"
    THEN Advanced([a.state EXCEPT !.Quitting = TRUE], Quit)
    ELSE a

\* The messages that a command can deliver when it has run.
Results(cmd) ==
    CASE cmd.type = "welcomeTick" -> {welcomeDoneMsg}
      [] cmd.type = "quitTick" -> {doneQuitMsg}
      [] cmd.type = "CheckRequirementCmd" ->
             {[type |-> "CheckRequirementMsg", Index |-> cmd.Index, OK |-> ok] :
                  ok \in BOOLEAN}
      [] cmd.type = "InstallRequirementCmd" ->
             {[type |-> "InstallRequirementMsg", Index |-> cmd.Index, Err |-> err] :
                  err \in BOOLEAN}
      [] cmd.type = "VerifyRequirementCmd" ->
             {[type |-> "VerifyRequirementMsg", Index |-> cmd.Index, OK |-> ok] :
                  ok \in BOOLEAN}

\* The keys the user presses: Enter, a key that quits and a key without meaning.
Keys == {"enter", "q", "x"}

\* The commands that the event loop runs out of what Update returned.
Started(cmd) == IF cmd \in {NoCmd, Quit} THEN {} ELSE {cmd}

\* tea.NewProgram(newModel()) and model.Init: the welcome delay runs.
WizardInit ==
    /\ config = EmptyApps
    /\ file = NoFile
    /\ containers = NoContainers
    /\ last = Idle
    /\ scenario = << >>
    /\ invocations = NoInvocations
    /\ networks = NoNetworks
    /\ ensured = NeverEnsured
    /\ labelCall = NoLabelCall
    /\ labelPrev = NoLabelCall
    /\ origin = NoOrigin
    /\ installed = NotInstalled
    /\ \E reqs \in RequirementLists :
           wizard = [state |-> NewWizardState(reqs), pending |-> {WelcomeTick},
                     msg |-> NoCmd]

\* The event loop hands msg to Update and runs the command it returns; the
\* program ends with tea.Quit.
Handle(msg, done) ==
    LET r == Update(wizard.state, msg) IN
    /\ ~wizard.state.Quitting
    /\ wizard' = [state |-> r.state,
                  pending |-> (wizard.pending \ done) \cup Started(r.cmd),
                  msg |-> msg]
    /\ UNCHANGED <<config, file, containers, last, scenario, invocations, networks,
                   ensured, labelCall, labelPrev, origin, installed>>

\* A command that runs delivers its message.
Deliver ==
    \E cmd \in (IF wizard.state.Quitting THEN {} ELSE wizard.pending) :
        \E msg \in Results(cmd) : Handle(msg, {cmd})

\* The user presses a key.
PressKey(key) == Handle(KeyMsg(key), {})

\* The user presses Enter at the install prompt.
PressEnterAtPrompt ==
    /\ wizard.state.Stage = StagePromptInstall
    /\ PressKey("enter")

WizardNext ==
    \/ Deliver
    \/ \E key \in Keys : PressKey(key)

WizardSpec == WizardInit /\ [][WizardNext]_vars

\* Every command that was started delivers its message, and the user presses
\* Enter at an install prompt.
WizardFairSpec ==
    WizardSpec /\ WF_vars(Deliver) /\ WF_vars(PressEnterAtPrompt)



---------------------------------------------------------------------------
(* Properties *)

Range(seq) == {seq[i] : i \in 1..Len(seq)}

\* The app's container, as the daemon holds it now.
ContainerOf(name) == containers[ContainerName(name)]

\* The registry that the next command will read from the document.
Persisted == loadConfig(file)

\* The call ended on a failure of the daemon or of the disk itself.
IOFailure == last.reason = DaemonError \/ last.err = ErrSave

\* C1: DeployApp is rejected with "already exists" exactly when the daemon
\* holds a container finks-<name> as the call begins, whatever the registry
\* holds (the check being reached and answered by the daemon).
C1_AlreadyExistsIffContainer ==
    last.op = "DeployApp" =>
        /\ last.err = ErrAlreadyExists => last.pre # Absent
        /\ (last.pre # Absent /\ last.err \notin {ErrUnavailable, ErrExistsCheck})
               => last.err = ErrAlreadyExists

\* A deploy rejected over a container that exists while the registry is empty
\* and no document was ever written.
C1_Witness ==
    /\ last.op = "DeployApp"
    /\ last.err = ErrAlreadyExists
    /\ last.pre # Absent
    /\ ~file.exists
    /\ config = EmptyApps

\* C2: when the container was created and its start failed, DeployApp returns
\* the error with no container finks-<name> in the daemon and no new entry
\* for name in the registry.
C2_StartFailureLeavesNoContainer ==
    (last.op = "DeployApp" /\ last.via = "failed to start container") =>
        /\ ContainerOf(last.name) = Absent
        /\ config = Persisted
        /\ last.name \in DOMAIN config => last.had

\* C3: a failed image pull makes DeployApp return an error with the registry
\* in memory, the document and the daemon's containers as they were.
C3_PullFailureCommitsNothing ==
    [][(last'.op = "DeployApp" /\ last'.err = ErrPull) =>
          /\ config' = NewManager(file)
          /\ file' = file
          /\ containers' = containers]_vars

C3_Witness ==
    /\ last.op = "DeployApp"
    /\ last.err = ErrPull
    /\ "ImagePull" \in Range(last.calls)

\* The entry that a deploy of name with args declares.
Declared(name, args) ==
    [Name |-> name, Image |-> args.image, Port |-> args.port, EnvVars |-> args.env,
     Volumes |-> args.volumes, Status |-> StatusRunning]

\* C4: after a successful DeployApp the daemon holds a started container
\* finks-<name>, and the registry, in memory and in the document, holds name
\* with status running and the declared image, port, environment and volumes.
C4_DeploySuccessRecorded ==
    (last.op = "DeployApp" /\ last.err = Nil) =>
        /\ ContainerOf(last.name) = Running
        /\ last.name \in DOMAIN config
        /\ config[last.name] = Declared(last.name, last.args)
        /\ file.exists
        /\ last.name \in DOMAIN Persisted
        /\ Persisted[last.name] = Declared(last.name, last.args)

\* A successful deploy that declares volumes and environment.
C4_Witness ==
    /\ last.op = "DeployApp"
    /\ last.err = Nil
    /\ Len(last.args.volumes) > 0
    /\ DOMAIN last.args.env # {}

\* "exited" in any letter case, letter by letter.
ExitedAnyCase ==
    <<{"e", "E"}, {"x", "X"}, {"i", "I"}, {"t", "T"}, {"e", "E"}, {"d", "D"}>>

HasExitedAnyCase(text) ==
    \E i \in 0..Len(text) :
        /\ i + Len(ExitedAnyCase) <= Len(text)
        /\ \A j \in 1..Len(ExitedAnyCase) : text[i + j] \in ExitedAnyCase[j]

\* The status that ListApps is to give an app whose container is in `state`.
ReconciledStatus(state) ==
    IF state = Absent THEN StatusUnknown
    ELSE IF HasExitedAnyCase(StatusText(state)) THEN StatusStopped
    ELSE StatusRunning

\* Status texts in several letter cases, with and without "exited".
SampleTexts ==
    {<<"E","X","I","T","E","D">>,
     <<"e","X","i","T","e","D"," ","(","1",")">>,
     <<"U","p"," ","e","x","i","t","e","d">>,
     <<"E","x","i","t">>,
     <<"E","x","i","t","e"," ","d">>,
     <<"D","e","a","d">>,
     << >>}

\* C5: ListApps gives every registry entry the status of its container as the
\* daemon lists it: unknown with no container finks-<name>, stopped when the
\* status text holds "exited" in any letter case, running otherwise, whatever
\* status the entry had.
C5_ListReconcilesFromRuntime ==
    /\ (last.op = "ListApps" /\ last.err \notin {ErrUnavailable, ErrList}) =>
           \A n \in DOMAIN config : config[n].Status = ReconciledStatus(ContainerOf(n))
    /\ \A text \in SampleTexts :
           containerStatus(text) =
               IF HasExitedAnyCase(text) THEN StatusStopped ELSE StatusRunning

\* A listing that marks one app stopped and the other unknown.
C5_Witness ==
    /\ last.op = "ListApps"
    /\ last.err = Nil
    /\ \E n \in DOMAIN config : config[n].Status = StatusStopped
    /\ \E n \in DOMAIN config : config[n].Status = StatusUnknown

\* C6: a ListApps that returns without error has written the document, and
\* the document holds every entry with the status computed from the daemon.
C6_ListPersistsReconciliation ==
    (last.op = "ListApps" /\ last.err = Nil) =>
        /\ "WriteFile" \in Range(last.calls)
        /\ file.exists
        /\ DOMAIN Persisted = DOMAIN config
        /\ \A n \in DOMAIN Persisted :
               Persisted[n].Status = ReconciledStatus(ContainerOf(n))

\* A successful listing of a registry whose apps all run: no status changed.
C6_Witness ==
    /\ last.op = "ListApps"
    /\ last.err = Nil
    /\ DOMAIN config = AppNames
    /\ \A n \in AppNames : ContainerOf(n) = Running

\* C7: RemoveApp without force is rejected when the app's container runs, and
\* the container, the registry in memory and the document stay as they were.
C7_UnforcedRemoveRejectedWhileRunning ==
    [][(last'.op = "RemoveApp" /\ ~last'.force /\ last'.pre = Running) =>
          /\ last'.err # Nil
          /\ containers' = containers
          /\ file' = file
          /\ config' = NewManager(file)]_vars

\* The daemon refused to remove the running container of a registered app.
C7_Witness ==
    /\ last.op = "RemoveApp"
    /\ ~last.force
    /\ last.had
    /\ last.reason = IsRunning
    /\ ContainerOf(last.name) = Running
    /\ last.name \in DOMAIN config
    /\ last.name \in DOMAIN Persisted

\* C8: RemoveApp with force on a registered app whose container exists,
\* running or not, is refused by nothing but a failure of the daemon or the
\* disk itself; returning without error it leaves no container finks-<name>
\* and no entry for name, in memory or in the document.
C8_ForcedRemoveProceeds ==
    (last.op = "RemoveApp" /\ last.force /\ last.had /\ last.pre # Absent) =>
        /\ last.err # Nil => IOFailure
        /\ last.err = Nil =>
               /\ ContainerOf(last.name) = Absent
               /\ last.name \notin DOMAIN config
               /\ file.exists
               /\ last.name \notin DOMAIN Persisted

\* A forced removal of a running app that returned without error.
C8_Witness ==
    /\ last.op = "RemoveApp"
    /\ last.force
    /\ last.had
    /\ last.pre = Running
    /\ last.err = Nil

\* C9: an entry of any status can be deleted by RemoveApp; so a forced
\* RemoveApp of an entry that is unknown because its container is gone, that
\* meets no failure of daemon or disk, deletes the entry.
C9_UnknownEntryRemovable ==
    (/\ last.op = "RemoveApp"
     /\ last.force
     /\ last.had
     /\ last.pre = Absent
     /\ ~IOFailure
     /\ last.name \in DOMAIN config => config[last.name].Status = StatusUnknown)
    => (last.err = Nil /\ last.name \notin DOMAIN config)

\* C10: a DeployApp that fails at creating or starting the container leaves
\* the app's record with status failed.
C10_RunFailureRecordsFailed ==
    (last.op = "DeployApp" /\ last.err = ErrRun) =>
        /\ last.name \in DOMAIN config
        /\ config[last.name].Status = StatusFailed

\* C11: StartApp and StopApp on a name that the registry does not hold return
\* "not found" (the probe having answered), issue no start or stop call and
\* no write, and leave containers, document and registry as they were, also
\* when a container finks-<name> exists.
C11_MissingEntryNotFound ==
    [][(last'.op \in {"StartApp", "StopApp"} /\ ~last'.had) =>
          /\ last'.fault # "Ping" => last'.err = ErrNotFound
          /\ Range(last'.calls) \cap {"ContainerStart", "ContainerStop", "WriteFile"} = {}
          /\ containers' = containers
          /\ file' = file
          /\ config' = NewManager(file)]_vars

\* StopApp answered "not found" for a name whose container runs.
C11_Witness ==
    /\ last.op = "StopApp"
    /\ ~last.had
    /\ last.pre = Running
    /\ last.err = ErrNotFound
    /\ ContainerOf(last.name) = Running

Statuses == {StatusRunning, StatusStopped, StatusFailed, StatusUnknown}

\* No command has run and nothing was written: the state of Init.
Untouched == last.op = "none" /\ ~file.exists /\ containers = NoContainers

\* The status that a successful StopApp or StartApp declares.
DeclaredAfter(op) == IF op = "StopApp" THEN StatusStopped ELSE StatusRunning

\* A registry that holds app Web with status st, and its document.
RegistryWith(st) == [n \in {Web} |-> [Declared(Web, DeployArgs(1)) EXCEPT !.Status = st]]

\* C12: once the daemon did the stop or start, StopApp marks the entry
\* stopped and StartApp marks it running whatever its status was, and a call
\* that returns without error has written that status to the document.  The
\* second part, evaluated where no command has run yet, applies both
\* operations to an entry of each of the four statuses.
C12_StartStopSetStatus ==
    /\ (last.op \in {"StartApp", "StopApp"} /\ "WriteFile" \in Range(last.calls)) =>
           /\ config[last.name].Status = DeclaredAfter(last.op)
           /\ last.err = Nil =>
                  /\ file.exists
                  /\ Persisted = config
    /\ Untouched => \A st \in Statuses, state \in {Created, Running, Exited} :
           LET m == RegistryWith(st)
               ctrs == [NoContainers EXCEPT ![ContainerName(Web)] = state]
               stop == StopAppRun(m, Marshal(m), ctrs, Web, "none")
               start == StartAppRun(m, Marshal(m), ctrs, Web, "none")
           IN /\ stop.err = Nil
              /\ stop.config[Web].Status = StatusStopped
              /\ loadConfig(stop.file)[Web].Status = StatusStopped
              /\ start.err = Nil
              /\ start.config[Web].Status = StatusRunning
              /\ loadConfig(start.file)[Web].Status = StatusRunning

\* A StartApp that returned without error on an entry that was unknown.
C12_Witness ==
    /\ last.op = "StartApp"
    /\ last.err = Nil
    /\ last.was = StatusUnknown
    /\ config[last.name].Status = StatusRunning
    /\ Persisted[last.name].Status = StatusRunning

\* The first k commands of Scenario have run since the start, and no other.
Ran(k) == scenario = SubSeq(Scenario, 1, k)

\* The registry holds the one entry Web, with status st.
OnlyWeb(m, st) ==
    /\ DOMAIN m = {Web}
    /\ m[Web].Name = Web
    /\ m[Web].Status = st

\* C13: from the empty registry and runtime, deploy web, ps, stop web, ps,
\* rm web (no force), with nothing failing: after the deploy the one
\* container of the runtime that carries the prefix is web's and it runs; the
\* first listing returns the one record web, running; the listing after the
\* stop shows web stopped; the removal succeeds and leaves no entry web.
C13_ScenarioOutcome ==
    /\ Ran(1) =>
           /\ containers = [NoContainers EXCEPT ![ContainerName(Web)] = Running]
           /\ last.op = "DeployApp" => last.err = Nil
    /\ (Ran(2) /\ last.op = "ListApps") =>
           /\ last.err = Nil
           /\ OnlyWeb(config, StatusRunning)
    /\ Ran(3) =>
           /\ ContainerOf(Web) = Exited
           /\ last.op = "StopApp" => last.err = Nil
    /\ (Ran(4) /\ last.op = "ListApps") =>
           /\ last.err = Nil
           /\ OnlyWeb(config, StatusStopped)
    /\ Ran(5) =>
           /\ last.op = "RemoveApp" => (last.err = Nil /\ Web \notin DOMAIN config)
           /\ Web \notin DOMAIN Persisted
           /\ containers = NoContainers

\* The whole scenario has run, ending with the removal.
C13_Witness ==
    /\ Ran(5)
    /\ last.op = "RemoveApp"
    /\ ~last.force
    /\ last.pre = Exited
    /\ last.was = StatusStopped
    /\ last.err = Nil

\* C14: when the probe fails, each of the five operations returns the
\* unavailability error having issued the probe and no other call, and
\* leaves containers, document and registry as they were.
C14_ProbeFailureStopsAll ==
    [][(last.op = "none" /\ last'.op # "none" /\ last'.fault = "Ping") =>
          /\ last'.err = ErrUnavailable
          /\ last'.calls = <<"Ping">>
          /\ containers' = containers
          /\ file' = file
          /\ config' = NewManager(file)]_vars

\* A forced removal of a registered, running app met a failed probe.
C14_Witness ==
    /\ last.op = "RemoveApp"
    /\ last.fault = "Ping"
    /\ last.force
    /\ last.had
    /\ last.pre = Running
    /\ last.err = ErrUnavailable
    /\ ContainerOf(last.name) = Running

\* C15: when DeployApp, StartApp, StopApp, RemoveApp or ListApps returns
\* without error, the document is the whole in-memory registry, every entry
\* of it and no other.
C15_SuccessPersistsWhole ==
    (last.op # "none" /\ last.err = Nil) =>
        /\ file.exists
        /\ file = Marshal(config)
        /\ Persisted = config

\* A removal that returned without error and left another entry behind.
C15_Witness ==
    /\ last.op = "RemoveApp"
    /\ last.err = Nil
    /\ last.had
    /\ config # EmptyApps
    /\ last.name \notin DOMAIN Persisted

\* C16: a DeployApp that fails at writing the document, after the container
\* was created and started, attempts to remove the container before it
\* returns, and leaves no running container finks-<name> without an entry in
\* the document.
C16_SaveFailureCleansUp ==
    (last.op = "DeployApp" /\ last.err = ErrSave) =>
        /\ "ContainerRemove" \in Range(last.calls)
        /\ ~(ContainerOf(last.name) = Running /\ last.name \notin DOMAIN Persisted)

\* App names as a user may give them: one made of characters of the prefix,
\* one that begins with the prefix, one that is part of another, the empty one.
SampleNames ==
    AppNames \cup {<<"s", "k", "i">>, Prefix \o Web, <<"w", "e">>, <<"f">>, << >>}

\* The container names of the listing that lead to app `name`.
CorrelatedWith(name) ==
    {c.Name : c \in {x \in ListContainers(containers) :
                        /\ CutPrefix(x.Name, Prefix).found
                        /\ CutPrefix(x.Name, Prefix).after = name}}

\* C18: the container name of an app is a function of its name alone, no two
\* names share one, and cutting the prefix gives the name back; so the
\* listing leads from a deployed app's container to that app's entry and to
\* no other, and each entry takes the status of its own container.  The
\* part on SampleNames is evaluated where no command has run yet.
C18_PrefixRoundTrip ==
    /\ Untouched =>
           /\ \A a, b \in SampleNames : ContainerName(a) = ContainerName(b) => a = b
           /\ \A a \in SampleNames :
                  CutPrefix(ContainerName(a), Prefix) = [after |-> a, found |-> TRUE]
           /\ CutPrefix(OtherContainer, Prefix).found = FALSE
    /\ \A n \in AppNames :
           CorrelatedWith(n) = IF ContainerOf(n) = Absent THEN {} ELSE {ContainerName(n)}
    /\ (last.op = "DeployApp" /\ last.err = Nil) =>
           CorrelatedWith(last.name) = {ContainerName(last.name)}
    /\ (last.op = "ListApps" /\ "WriteFile" \in Range(last.calls)) =>
           \A n \in DOMAIN config :
               config[n].Status = IF CorrelatedWith(n) = {} THEN StatusUnknown
                                  ELSE containerStatus(StatusText(ContainerOf(n)))

\* A listing of two deployed apps, one running and one exited, each entry
\* marked after its own container.
C18_Witness ==
    /\ last.op = "ListApps"
    /\ last.err = Nil
    /\ DOMAIN config = AppNames
    /\ ContainerOf(Web) = Running
    /\ ContainerOf(Db) = Exited
    /\ config[Web].Status = StatusRunning
    /\ config[Db].Status = StatusStopped

\* A port mapping as --port documents it: none, or host:container with both
\* ports numbers of 16 bits, the container port with an optional /protocol.
WellFormedPort(port) ==
    \/ port = << >>
    \/ LET parts == Split(port, ":") IN
       /\ Len(parts) = 2
       /\ ParseUint16(parts[1]).ok
       /\ ParseUint16(Split(parts[2], "/")[1]).ok

\* C19: DeployApp with a malformed port mapping is rejected before anything
\* is changed: it returns an error having issued no image pull, no container
\* creation and no write.
C19_MalformedPortRejectedFirst ==
    (last.op = "DeployApp" /\ ~WellFormedPort(last.args.port)) =>
        /\ last.err # Nil
        /\ Range(last.calls) \cap {"ImagePull", "ContainerCreate", "WriteFile"} = {}

\* The invocation has passed the existence check: it saw no container.
Passed(i) == invocations[i].pc \in {"pull", "run"}

\* C17: the existence check does not serialize two deploy commands of one
\* name: while no container finks-<name> exists, a command that stands at
\* the check can pass it wherever the other command stands, also when the
\* other has passed the check and has not yet created the container.
C17_CheckDoesNotSerialize ==
    \A i \in Invocations :
        (/\ invocations[i].pc = "exists"
         /\ containers[ContainerName(invocations[i].name)] = Absent) =>
            ENABLED (RaceContainerExists(i, "none") /\ invocations'[i].pc = "pull")

\* Both commands have passed the check and neither has created the container.
C17_Witness ==
    /\ \A i \in Invocations : Passed(i) /\ invocations[i].name = RaceName
    /\ containers[ContainerName(RaceName)] = Absent

\* C20: EnsureNetwork is a get-or-create that can be repeated: on a name
\* that a network has, it creates and changes nothing and returns that
\* network's identifier; returning without error it leaves exactly one
\* network of that name, whose identifier it returns, the same as the call
\* before it returned for that network; it fails only when a call to the
\* daemon does; networks of other names are untouched.
C20_EnsureNetworkIdempotent ==
    [][ensured'.op = "EnsureNetwork" =>
          LET name == ensured'.name
              before == Named(networks, name)
              after == Named(networks', name)
          IN /\ ensured'.err # Nil => ensured'.fault # "none"
             /\ before # {} =>
                    /\ networks' = networks
                    /\ "NetworkCreate" \notin Range(ensured'.calls)
                    /\ ensured'.err = Nil => {net.ID : net \in before} = {ensured'.ID}
             /\ ensured'.err = Nil =>
                    /\ Cardinality(after) = 1
                    /\ {net.ID : net \in after} = {ensured'.ID}
                    /\ ensured'.prev # NoID => ensured'.ID = ensured'.prev
             /\ \A other \in NetworkNames \ {name} :
                    Named(networks', other) = Named(networks, other)]_vars

\* A repeated EnsureNetwork returned the identifier it returned before, for
\* a network whose driver is not the one asked for.
C20_Witness ==
    /\ ensured.op = "EnsureNetwork"
    /\ ensured.err = Nil
    /\ ensured.prev # NoID
    /\ ensured.ID = ensured.prev
    /\ ensured.calls = <<"NetworkList", "NetworkInspect">>
    /\ \E net \in Named(networks, ensured.name) :
           /\ net.ID = ensured.ID
           /\ net.Driver # ensured.driver

\* The network called name differs from what the call asked for.
Mismatch(nets, name, driver, labels) ==
    \E net \in Named(nets, name) : net.Driver # driver \/ net.Labels # labels

\* C21: EnsureNetwork on a name that a network has, called with another
\* driver or other labels, leaves the network's driver and labels as they
\* are and returns without error (the listing and the inspection answering).
C21_FirstWriterWins ==
    [][(/\ ensured'.op = "EnsureNetwork"
        /\ Mismatch(networks, ensured'.name, ensured'.driver, ensured'.labels)) =>
          /\ Named(networks', ensured'.name) = Named(networks, ensured'.name)
          /\ ensured'.fault \notin {"NetworkList", "NetworkInspect"} =>
                 /\ ensured'.err = Nil
                 /\ ensured'.ID # NoID]_vars

\* EnsureNetwork returned without error on a network whose driver and labels
\* are both not the ones asked for.
C21_Witness ==
    /\ ensured.op = "EnsureNetwork"
    /\ ensured.err = Nil
    /\ \E net \in Named(networks, ensured.name) :
           /\ net.Driver # ensured.driver
           /\ net.Labels # ensured.labels
           /\ net.Labels # NilMap

---------------------------------------------------------------------------
(* Properties of the label generator *)

Generated(call) == call.op = "GenerateLabels"

SameInput(a, b) ==
    /\ a.appName = b.appName
    /\ a.domain = b.domain
    /\ a.port = b.port
    /\ a.localMode = b.localMode

\* C22: two calls of GenerateLabels with the same name, domain, port and mode
\* return maps with the same keys and the same values, whatever was called
\* in between.
C22_GenerateLabelsDeterministic ==
    (Generated(labelCall) /\ Generated(labelPrev) /\ SameInput(labelCall, labelPrev)) =>
        /\ DOMAIN labelCall.out = DOMAIN labelPrev.out
        /\ \A k \in DOMAIN labelCall.out : labelCall.out[k] = labelPrev.out[k]

\* The same managed-mode input was given twice.
C22_Witness ==
    /\ Generated(labelCall) /\ Generated(labelPrev)
    /\ SameInput(labelCall, labelPrev)
    /\ ~labelCall.localMode
    /\ labelCall.port # NoPortText

\* The identifier as the words define it, character by character: lowercase,
\* '_' and space become '-', anything outside a-z, 0-9 and '-' is dropped.
IdentifierChars ==
    {"a","b","c","d","e","f","g","h","i","j","k","l","m","n","o","p","q","r","s","t",
     "u","v","w","x","y","z","0","1","2","3","4","5","6","7","8","9","-"}

RECURSIVE Identifier(_)
Identifier(name) ==
    IF name = << >> THEN << >>
    ELSE LET lower == ToLowerChar(Head(name))
             c == IF lower \in {"_", " "} THEN "-" ELSE lower
         IN (IF c \in IdentifierChars THEN <<c>> ELSE << >>) \o Identifier(Tail(name))

\* The routers that the keys of a map name.
Routers(out) == {k[2] : k \in {j \in DOMAIN out : j[1] = "traefik.http.routers."}}

IsMiddlewareKey(k) ==
    \/ k[1] = "traefik.http.middlewares."
    \/ k[1] \in {"traefik.http.middlewares.https-redirect.redirectscheme.scheme",
                 "traefik.http.middlewares.https-redirect.redirectscheme.permanent"}

MiddlewareKeys(out) == {k \in DOMAIN out : IsMiddlewareKey(k)}

Host(domain) == <<HostOpen, domain, HostClose>>

MyAppIdentifier == <<"m", "y", "-", "a", "p", "p">>

\* C23: in Local mode the router is bound to the entrypoint web and the map
\* holds no tls label, no certresolver label, no second router and no
\* middleware label; for "My App" and my-app.example.com the identifier is
\* my-app and the map holds traefik.enable and the Host rule of the domain.
C23_LocalPlaintextOnly ==
    (Generated(labelCall) /\ labelCall.localMode) =>
        LET out == labelCall.out
            id == Identifier(labelCall.appName)
        IN /\ RouterKey(id, ".entrypoints") \in DOMAIN out
           /\ out[RouterKey(id, ".entrypoints")] = Text("web")
           /\ \A k \in DOMAIN out : k[3] \notin {".tls", ".tls.certresolver", ".middlewares"}
           /\ Routers(out) = {id}
           /\ MiddlewareKeys(out) = {}
           /\ \A k \in DOMAIN out : out[k] # Text("websecure")
           /\ (labelCall.appName = MyApp /\ labelCall.domain = MyAppDomain) =>
                  /\ id = MyAppIdentifier
                  /\ Text("traefik.enable") \in DOMAIN out
                  /\ out[Text("traefik.enable")] = Text("true")
                  /\ out[RouterKey(MyAppIdentifier, ".rule")] = Host(MyAppDomain)

\* GenerateLabels("My App", "my-app.example.com", "80", true) has returned.
C23_Witness ==
    /\ Generated(labelCall)
    /\ labelCall.localMode
    /\ labelCall.appName = MyApp
    /\ labelCall.domain = MyAppDomain
    /\ labelCall.port = <<"8", "0">>
    /\ RouterKey(MyAppIdentifier, ".entrypoints") \in DOMAIN labelCall.out

\* C24: in Managed mode the main router is bound to websecure with tls and a
\* certresolver label, exactly one more router exists, bound to web with the
\* Host rule of the same domain and the middleware https-redirect, and the
\* middleware labels are the two redirectscheme labels, the same for every app.
C24_ManagedRedirects ==
    (Generated(labelCall) /\ ~labelCall.localMode) =>
        LET out == labelCall.out
            id == Identifier(labelCall.appName)
            others == Routers(out) \ {id}
        IN /\ {RouterKey(id, ".entrypoints"), RouterKey(id, ".tls"),
               RouterKey(id, ".tls.certresolver")} \subseteq DOMAIN out
           /\ out[RouterKey(id, ".entrypoints")] = Text("websecure")
           /\ out[RouterKey(id, ".tls")] = Text("true")
           /\ out[RouterKey(id, ".tls.certresolver")] = Text("letsencrypt")
           /\ Cardinality(others) = 1
           /\ \A r \in others :
                  /\ {k[3] : k \in {j \in DOMAIN out : j[1] = "traefik.http.routers."
                                                      /\ j[2] = r}}
                         = {".rule", ".entrypoints", ".middlewares"}
                  /\ out[RouterKey(r, ".rule")] = Host(labelCall.domain)
                  /\ out[RouterKey(r, ".entrypoints")] = Text("web")
                  /\ out[RouterKey(r, ".middlewares")] = Text("https-redirect")
           /\ MiddlewareKeys(out)
                  = {Text("traefik.http.middlewares.https-redirect.redirectscheme.scheme"),
                     Text("traefik.http.middlewares.https-redirect.redirectscheme.permanent")}
           /\ out[Text("traefik.http.middlewares.https-redirect.redirectscheme.scheme")]
                  = Text("https")
           /\ out[Text("traefik.http.middlewares.https-redirect.redirectscheme.permanent")]
                  = Text("true")
           /\ (Generated(labelPrev) /\ ~labelPrev.localMode) =>
                  /\ MiddlewareKeys(labelPrev.out) = MiddlewareKeys(out)
                  /\ \A k \in MiddlewareKeys(out) : labelPrev.out[k] = out[k]

\* Two apps with different identifiers were labelled in Managed mode.
C24_Witness ==
    /\ Generated(labelCall) /\ ~labelCall.localMode
    /\ Generated(labelPrev) /\ ~labelPrev.localMode
    /\ Identifier(labelCall.appName) # Identifier(labelPrev.appName)
    /\ MiddlewareKeys(labelCall.out) # {}

Sanitized == labelCall.op = "sanitizeRouterName"

\* C25: sanitizeRouterName applied to its own result returns that result.
C25_SanitizeIdempotent ==
    Sanitized => sanitizeRouterName(labelCall.out) = labelCall.out

\* A name was sanitized that lost a character and had one replaced.
C25_Witness ==
    /\ Sanitized
    /\ Len(labelCall.out) > 0
    /\ Len(labelCall.out) < Len(labelCall.appName)
    /\ \E i \in 1..Len(labelCall.appName) : labelCall.appName[i] \in {"_", " "}

\* C26: the identifier is the name lowercased, '_' and space replaced by '-',
\* every character outside a-z, 0-9, '-' dropped; it holds only such
\* characters; the router and the service carry the same identifier.
C26_IdentifierNormalized ==
    /\ Sanitized =>
           /\ labelCall.out = Identifier(labelCall.appName)
           /\ \A i \in 1..Len(labelCall.out) : labelCall.out[i] \in IdentifierChars
           /\ labelCall.service = labelCall.out
    /\ Generated(labelCall) =>
           LET out == labelCall.out
               id == Identifier(labelCall.appName)
           IN /\ id \in Routers(out)
              /\ out[RouterKey(id, ".service")] = <<"", id, "">>
              /\ \A k \in DOMAIN out : k[1] = "traefik.http.services." => k[2] = id

\* A name with an uppercase letter, an underscore and a dot was sanitized.
C26_Witness ==
    /\ Sanitized
    /\ \E i, j, k \in 1..Len(labelCall.appName) :
           /\ labelCall.appName[i] = "A"
           /\ labelCall.appName[j] = "_"
           /\ labelCall.appName[k] = "."
    /\ labelCall.out = <<"a", "-">>

\* C27: every map holds traefik.enable, the shared network, the Host rule of
\* the domain and the router's service; it holds the load-balancer port
\* label exactly when the port is not empty.
C27_BasicLabelsAndPort ==
    Generated(labelCall) =>
        LET out == labelCall.out
            id == Identifier(labelCall.appName)
            portKey == <<"traefik.http.services.", id, ".loadbalancer.server.port">>
        IN /\ {Text("traefik.enable"), Text("traefik.docker.network"),
               RouterKey(id, ".rule"), RouterKey(id, ".service")} \subseteq DOMAIN out
           /\ out[Text("traefik.enable")] = Text("true")
           /\ out[Text("traefik.docker.network")] = Text("finks-network")
           /\ out[RouterKey(id, ".rule")] = Host(labelCall.domain)
           /\ out[RouterKey(id, ".service")] = <<"", id, "">>
           /\ (portKey \in DOMAIN out) <=> (labelCall.port # << >>)
           /\ \A k \in DOMAIN out : k[1] = "traefik.http.services." => k = portKey
           /\ labelCall.port # << >> => out[portKey] = <<"", labelCall.port, "">>

\* One app was labelled with a port and then without.
C27_Witness ==
    /\ Generated(labelCall) /\ Generated(labelPrev)
    /\ labelCall.appName = labelPrev.appName
    /\ labelPrev.port # NoPortText
    /\ labelCall.port = NoPortText
    /\ Cardinality(DOMAIN labelPrev.out) = Cardinality(DOMAIN labelCall.out) + 1

\* The router and service keys of a map.
RoutingKeys(out) ==
    {k \in DOMAIN out : k[1] \in {"traefik.http.routers.", "traefik.http.services."}}

\* DeployApp of a and then of b on a host without containers and registry.
DeployBoth(a, b) ==
    LET host == [cn \in {ContainerName(a), ContainerName(b)} |-> Absent]
        first == DeployAppRun(NewManager(NoFile), NoFile, host, a, DeployArgs(2), "none")
    IN [first |-> first,
        second |-> DeployAppRun(NewManager(first.file), first.file, first.containers,
                                b, DeployArgs(2), "none")]

\* C28: two different names with the same identifier ("my app", "my_app")
\* get the same router and service keys, and DeployApp takes both.
C28_CollisionSilent ==
    (/\ Generated(labelCall) /\ Generated(labelPrev)
     /\ labelCall.appName # labelPrev.appName
     /\ Identifier(labelCall.appName) = Identifier(labelPrev.appName)
     /\ labelCall.localMode = labelPrev.localMode
     /\ (labelCall.port = NoPortText) = (labelPrev.port = NoPortText)) =>
        /\ RoutingKeys(labelCall.out) = RoutingKeys(labelPrev.out)
        /\ RoutingKeys(labelCall.out) # {}
        /\ LET both == DeployBoth(labelPrev.appName, labelCall.appName) IN
               /\ both.first.err = Nil
               /\ both.second.err = Nil
               /\ {labelPrev.appName, labelCall.appName}
                      \subseteq DOMAIN loadConfig(both.second.file)

\* "my app" was labelled and then "my_app", in the same mode with the same port.
C28_Witness ==
    /\ Generated(labelCall) /\ Generated(labelPrev)
    /\ labelPrev.appName = MySpaceApp
    /\ labelCall.appName = MyUnderscoreApp
    /\ labelCall.localMode = labelPrev.localMode
    /\ labelCall.port = labelPrev.port
    /\ RoutingKeys(labelCall.out) = RoutingKeys(labelPrev.out)

\* space, tab, newline
Whitespace == {" ", Tab, Newline}

\* C29: ValidateDomain returns an error exactly for the domains that are
\* empty, hold a whitespace character, start or end with a dot, or are
\* longer than 253 characters.
C29_ValidateDomainExact ==
    labelCall.op = "ValidateDomain" =>
        LET domain == labelCall.domain IN
        (labelCall.err # Nil) <=>
            \/ domain = << >>
            \/ \E i \in 1..Len(domain) : domain[i] \in Whitespace
            \/ (domain # << >> /\ (domain[1] = "." \/ domain[Len(domain)] = "."))
            \/ Len(domain) > 253

\* Invocation a read the document before invocation b, a deploy, wrote its
\* entry, and wrote the document after b did; both returned nil.
Overtaken(a, b) ==
    /\ invocations[b].cmd = "deploy"
    /\ invocations[b].saved > 0
    /\ invocations[b].err = Nil
    /\ invocations[a].loaded < invocations[b].saved
    /\ invocations[a].saved > invocations[b].saved

\* C30: when a command (a ps or another deploy) reads the document before a
\* concurrent deploy writes its entry, and writes the document after it,
\* the deploy's entry is not in the document although the deploy returned
\* nil and its container is in the daemon.
C30_LostUpdate ==
    \A a, b \in Invocations :
        Overtaken(a, b) =>
            /\ invocations[b].name \notin DOMAIN loadConfig(file)
            /\ invocations[b].name \in DOMAIN invocations[b].config
            /\ containers[ContainerName(invocations[b].name)] # Absent
            /\ loadConfig(file) = invocations[a].config

\* A ps read the document before a deploy wrote its entry and wrote after it.
C30_Witness ==
    \E a, b \in Invocations :
        /\ Overtaken(a, b)
        /\ invocations[a].cmd = "ps"
        /\ containers[ContainerName(invocations[b].name)] = Running

---------------------------------------------------------------------------
(* Containers without an entry, failed daemon calls, the frame of ListApps *)

\* A container finks-<name> is in the daemon and the document has no entry
\* for name.
Orphan(name) ==
    /\ containers[ContainerName(name)] # Absent
    /\ name \notin DOMAIN loadConfig(file)

\* C31: while a container finks-<name> exists and the registry has no entry
\* for name, DeployApp(name) is rejected (as already existing when the
\* daemon answers), StartApp, StopApp and RemoveApp(name), forced or not,
\* are rejected (as not found when the daemon answers), and no operation of
\* the Manager, ListApps included, changes the container or records the name.
C31_OrphanStaysOrphan ==
    [][\A name \in AppNames :
          (Orphan(name) /\ last'.op # "none") =>
              /\ containers'[ContainerName(name)] = containers[ContainerName(name)]
              /\ name \notin DOMAIN loadConfig(file')
              /\ name \notin DOMAIN config'
              /\ (last'.op = "DeployApp" /\ last'.name = name) =>
                     /\ last'.err \in {ErrUnavailable, ErrExistsCheck, ErrAlreadyExists}
                     /\ last'.fault \notin {"Ping", "ContainerList"} =>
                            last'.err = ErrAlreadyExists
              /\ (last'.op \in {"StartApp", "StopApp", "RemoveApp"} /\ last'.name = name) =>
                     /\ last'.err \in {ErrUnavailable, ErrNotFound}
                     /\ last'.fault # "Ping" => last'.err = ErrNotFound]_vars

\* A forced RemoveApp was rejected as not found while the app's container runs.
C31_Witness ==
    /\ last.op = "RemoveApp"
    /\ last.force
    /\ last.err = ErrNotFound
    /\ Orphan(last.name)
    /\ containers[ContainerName(last.name)] = Running

\* C33: when the daemon's stop, start or remove call fails, StopApp,
\* StartApp and RemoveApp return the error, the entry stays in the registry
\* with the status it had, and the document is as it was.
C33_FailedCallChangesNothing ==
    [][last'.err \in {ErrStop, ErrStart, ErrRemove} =>
          /\ last'.op = CASE last'.err = ErrStop -> "StopApp"
                          [] last'.err = ErrStart -> "StartApp"
                          [] OTHER -> "RemoveApp"
          /\ file' = file
          /\ last'.name \in DOMAIN config'
          /\ config' = loadConfig(file)
          /\ config'[last'.name].Status = last'.was]_vars

\* StartApp failed at the daemon on an entry declared stopped, which the
\* document still declares stopped.
C33_Witness ==
    /\ last.err = ErrStart
    /\ last.reason = DaemonError
    /\ last.was = StatusStopped
    /\ Persisted[last.name].Status = StatusStopped

\* C34: ListApps adds and removes no entry and changes nothing of an entry
\* but its status: the names it returns are the registry's names before the
\* call, and containers without an entry, with the prefix or without, are
\* not recorded.
C34_ListKeepsEntries ==
    [][last'.op = "ListApps" =>
          LET before == loadConfig(file) IN
          /\ DOMAIN config' = DOMAIN before
          /\ DOMAIN loadConfig(file') = DOMAIN before
          /\ \A name \in DOMAIN before :
                 /\ [config'[name] EXCEPT !.Status = before[name].Status] = before[name]
                 /\ [loadConfig(file')[name] EXCEPT !.Status = before[name].Status]
                        = before[name]]_vars

\* ListApps returned nil with one app recorded while the other app's
\* container and the container without the prefix run.
C34_Witness ==
    /\ last.op = "ListApps"
    /\ last.err = Nil
    /\ DOMAIN Persisted = {Web}
    /\ containers[ContainerName(Db)] = Running
    /\ containers[OtherContainer] = Running

\* Two deploy commands of one name.
SameName(i, j) ==
    /\ i # j
    /\ invocations[i].cmd = "deploy"
    /\ invocations[j].cmd = "deploy"
    /\ invocations[i].name = invocations[j].name

Succeeded(i) == invocations[i].pc = "done" /\ invocations[i].err = Nil

\* C32: of two concurrent deploy commands of one name the daemon creates a
\* container for at most one, at most one returns nil, and when one has
\* returned nil the other ends with an error of the probe, the existence
\* check, the pull or the creation, with no container created for it.
C32_OneContainerOneSuccess ==
    \A i, j \in Invocations :
        SameName(i, j) =>
            /\ ~(invocations[i].created /\ invocations[j].created)
            /\ ~(Succeeded(i) /\ Succeeded(j))
            /\ (Succeeded(i) /\ invocations[j].pc = "done") =>
                   /\ invocations[j].err \in {ErrUnavailable, ErrExistsCheck,
                                               ErrAlreadyExists, ErrPull, ErrRun}
                   /\ ~invocations[j].created
            /\ Succeeded(i) => invocations[j].pc \notin {"record"}

\* Both commands passed the existence check; one returned nil and the other
\* failed at the creation of the container.
C32_Witness ==
    \E i, j \in Invocations :
        /\ SameName(i, j)
        /\ Succeeded(i)
        /\ invocations[i].created
        /\ invocations[j].pc = "done"
        /\ invocations[j].err = ErrRun
        /\ invocations[i].args = invocations[j].args
        /\ PortBindings(invocations[j].args.port).ok

\* C35: over every sequence of DeployApp and InstallTraefik calls, after an
\* InstallTraefik that succeeded the container named finks-traefik is one
\* created from the proxy image, never the container of an application.
C35_ProxyContainerFromProxyImage ==
    installed.op = "InstallTraefik" /\ installed.err = Nil
        => origin[traefikContainerName] = traefikImage

\* call is among the daemon calls issued.
Issued(calls, call) == \E i \in 1..Len(calls) : calls[i] = call

NetworkCalls == {"NetworkList", "NetworkInspect", "NetworkCreate"}

\* C36: InstallTraefik ensures the proxy network before any container
\* operation and performs none when that fails; a proxy container that runs
\* is left as it is, one that exists without running is only started, only a
\* missing one is pulled and created, and a call after a successful call
\* pulls and creates nothing.
C36_InstallIdempotentOrdered ==
    [][installed'.op = "InstallTraefik" =>
        LET calls == installed'.calls
            was == containers[traefikContainerName]
            started == [containers EXCEPT ![traefikContainerName] = Running]
            creates == Issued(calls, "ImagePull") \/ Issued(calls, "ContainerCreate")
        IN
        /\ calls[1] = "NetworkList"
        /\ \A i, j \in 1..Len(calls) :
               calls[i] \in NetworkCalls /\ calls[j] \notin NetworkCalls => i < j
        /\ installed'.err = "failed to ensure Traefik network"
               => /\ \A i \in 1..Len(calls) : calls[i] \in NetworkCalls
                  /\ containers' = containers
        /\ (\E i \in 1..Len(calls) : calls[i] \notin NetworkCalls)
               => NetworkExists(networks', traefikNetworkName)
        /\ was = Running => containers' = containers /\ ~creates
        /\ was \in {Created, Exited} => containers' \in {containers, started} /\ ~creates
        /\ creates => was = Absent
        /\ was = Absent /\ installed'.err = Nil
               => /\ Issued(calls, "ImagePull") /\ Issued(calls, "ContainerCreate")
                  /\ containers' = started
        /\ installed.op = "InstallTraefik" /\ installed.err = Nil => ~creates
    ]_vars

\* An InstallTraefik that succeeded on the container an earlier InstallTraefik
\* had created: nothing pulled, nothing created, the container running.
C36_Witness ==
    /\ installed.op = "InstallTraefik"
    /\ installed.err = Nil
    /\ ~Issued(installed.calls, "ImagePull")
    /\ ~Issued(installed.calls, "ContainerCreate")
    /\ origin[traefikContainerName] = traefikImage
    /\ containers[traefikContainerName] = Running
    /\ NetworkExists(networks, traefikNetworkName)

\* C37: the proxy manager's GetStatus reports Running for a status text
\* exactly when the rule of ListApps reports Running for it.
C37_StatusClassifiedAlike ==
    installed.op = "GetStatus" /\ installed.found
        => (installed.Status = StatusRunning
                <=> containerStatus(installed.text) = StatusRunning)

\* The stage edges of the wizard, from state s to state t.
Edge(s, t) ==
    \/ /\ s.Stage = StageWelcome
       /\ \/ t.Stage = StageChecking /\ t.ReqIndex = s.ReqIndex
          \/ t.Stage = StageDone /\ Len(s.Requirements) = 0
    \/ /\ s.Stage = StageChecking
       /\ \/ t.Stage = StagePromptInstall /\ t.ReqIndex = s.ReqIndex
          \/ t.Stage = StageChecking /\ t.ReqIndex = s.ReqIndex + 1
          \/ t.Stage = StageDone
    \/ /\ s.Stage = StagePromptInstall
       /\ t.Stage \in {StageInstalling, StageVerifying}
       /\ t.ReqIndex = s.ReqIndex
    \/ /\ s.Stage = StageInstalling
       /\ t.Stage = StageVerifying
       /\ t.ReqIndex = s.ReqIndex
    \/ /\ s.Stage = StageVerifying
       /\ \/ t.Stage = StageChecking /\ t.ReqIndex = s.ReqIndex + 1
          \/ t.Stage = StageDone

\* msg is the message the wizard waits for in state s; Enter at the install
\* prompt arrives as a key.
Awaited(s, msg) ==
    \/ Expected(s.Stage, msg)
    \/ s.Stage = StagePromptInstall /\ msg = KeyMsg("enter")

\* msg ends the program: a key that quits, or the end of the closing delay.
Quits(msg) ==
    \/ msg.type = "KeyMsg" /\ msg.key \in QuitKeys
    \/ msg.type = "doneQuitMsg"

\* C38: the stage of the wizard changes only along the edges Welcome to
\* Checking (or Done without requirement), Checking to PromptInstall, to
\* Checking of the next requirement or to Done, PromptInstall to Installing or
\* Verifying, Installing to Verifying, Verifying to Checking of the next
\* requirement or to Done; Done is left by no message, a message that the
\* stage does not wait for leaves the state as it is, and between Welcome and
\* Done the requirement index lies within the list and never decreases.
C38_WizardStageEdges ==
    [][LET s == wizard.state
           t == wizard'.state
           msg == wizard'.msg
       IN
       /\ t.Stage # s.Stage \/ t.ReqIndex # s.ReqIndex => Edge(s, t)
       /\ Awaited(s, msg) => Edge(s, t)
       /\ s.Stage = StageDone => t.Stage = StageDone /\ t.ReqIndex = s.ReqIndex
       /\ ~Awaited(s, msg) /\ ~Quits(msg) => t = s
       /\ ~Awaited(s, msg) /\ Quits(msg) => t = [s EXCEPT !.Quitting = TRUE]
       /\ t.ReqIndex >= s.ReqIndex
       /\ t.Stage \in {StageChecking, StagePromptInstall, StageInstalling,
                       StageVerifying}
              => t.ReqIndex \in 0..(Len(t.Requirements) - 1)
    ]_vars

\* The wizard checks its second requirement after the first was installed and
\* verified.
C38_Witness ==
    /\ wizard.state.Stage = StageChecking
    /\ wizard.state.ReqIndex = 1
    /\ wizard.msg.type = "VerifyRequirementMsg"
    /\ ~wizard.state.InstallErr
    /\ wizard.state.Requirements[1].CanAutoInstall

\* C39: when every command delivers its message and the user presses Enter at
\* each install prompt, the wizard reaches the Done stage, and from the Done
\* stage on the program ends without a key being pressed.
C39_WizardTerminates ==
    /\ <>(wizard.state.Stage = StageDone \/ wizard.state.Quitting)
    /\ (wizard.state.Stage = StageDone) ~> wizard.state.Quitting

\* C39 for the lists that hold a requirement.
WizardTerminatesWithRequirement ==
    Len(wizard.state.Requirements) > 0 => C39_WizardTerminates

===========================================================================
